---- MODULE Spec2Model ----
(***************************************************************************)
(* Model of the cleoselene engine: the GameState command/event buffers     *)
(* (engine/src/lib.rs) and the frame loop with its per-connection network  *)
(* tasks (server/src/main.rs).                                             *)
(***************************************************************************)
EXTENDS Integers, Sequences, FiniteSets, TLC

\* ------------------------------------------------------------------ bounds

\* connections (websocket upgrades) the model follows
NConns == 2
\* api calls a script makes in one callback
MaxEmit == 2
\* records the event buffer / the frame-local buffer may hold when a host
\* other than the frame loop calls GameState in any order
MaxEvents == 2
MaxBuf == 3
\* api calls a script makes in one callback under the frame loop
MaxLoopEmit == 1
\* inputs the clients send
MaxInputs == 2
\* capacity of a render queue and of an input queue (30 and 100 in the
\* server, scaled down)
RenderCap == 1
InputCap == 2
\* capacity of the debug channel (10 in the server, scaled down)
DebugCap == 1
\* frames the coordinator task of a connection takes from its render queue
MaxFrames == 3
\* capacity of the relay queue tx_ws_frame (30 in the server, scaled down)
WsFrameCap == 1
\* debug_handler calls that can be suspended in send at the same time
MaxDebugWait == 1

Conns == 1..NConns

\* ------------------------------------------------------------ op codes

OP_CLEAR == 1
OP_SET_COLOR == 2
OP_FILL_RECT == 3
OP_DRAW_LINE == 4
OP_DRAW_TEXT == 5
OP_LOAD_SOUND == 6
OP_PLAY_SOUND == 7
OP_STOP_SOUND == 8
OP_SET_VOLUME == 9

\* The functions of the `api` table that write commands.
DrawFns == {"clear_screen", "set_color", "fill_rect", "draw_line", "draw_text", "load_sound"}
SoundFns == {"play_sound", "stop_sound", "set_volume"}
ApiFns == DrawFns \cup SoundFns

\* The script callbacks of a GameState.
SessionCallbacks == {"draw", "handle_input", "on_connect", "on_disconnect"}
GlobalCallbacks == {"update", "eval"}

VARIABLES
    script,   \* the loaded script: the api functions its callbacks call, and
              \* whether their arguments name the calling callback
    game,     \* GameState: command_buffer, event_buffer, current_mode
    ret,      \* the last GameState call: its arguments, the api calls the script
              \* made in it, and what it returned
    ev_log,   \* sound calls made in Update mode since the last begin_frame
    \* the frame loop (simulation thread)
    pc,           \* its position in one iteration
    idx,          \* index of the client a retain pass is at
    clients,      \* Vec<ActiveClient>, as connection ids
    new_clients,  \* the admission queue (Arc<Mutex<Vec<ClientConnection>>>)
    notify,       \* a file-changed signal is pending in rx_notify
    rx_debug,     \* debug requests pending in the debug channel
    \* the channels of each connection
    rq,           \* render queue: frames sent and not yet received
    rx_render,    \* its receiver exists
    inq,          \* input queue: inputs sent and not yet received
    tx_input,     \* a sender of it exists
    \* the network task of each connection
    net,          \* position of handle_socket
    n_in,         \* inputs accepted into the input queue so far
    io,           \* the network task of connection Me in detail: websocket,
                  \* data channel, relay queue, pending sends (see NoIo)
    session,      \* the session id of each connection
    \* history
    delivered,    \* inputs handed to on_input, per connection
    disc,         \* on_disconnect calls, per connection
    sent,         \* outcome of this tick's draw and send, per connection
    tick,         \* this iteration: begin_frame was called, the number of
                  \* update calls, the number of draw calls and of
                  \* on_connect calls per connection
    upd_emitted,  \* api calls made by this iteration's update
    \* the engine library, as a script uses it
    db,           \* a SpatialDb: next_id, cell_size, entities, grid
    phys,         \* the PhysicsWorld on db: bodies, gravity, collisions
    graph,        \* a Graph: nodes
    got           \* the last call of the library that returned a value

gsvars == <<script, game, ret, ev_log>>
loopvars == <<pc, idx, clients, new_clients, notify, rx_debug>>
chanvars == <<rq, rx_render, inq, tx_input>>
netvars == <<net, n_in, io, session>>
histvars == <<delivered, disc, sent, tick, upd_emitted>>
engvars == <<db, phys, graph, got>>
vars == <<gsvars, loopvars, chanvars, netvars, histvars, engvars>>

\* ------------------------------------------------ the library, when new

\* SpatialDb::new(cell_size)
SpatialDb_new(cell_size) ==
    [next_id |-> 1, cell_size |-> cell_size, entities |-> <<>>, grid |-> <<>>]

\* PhysicsWorld::new(db); steps counts the calls of step
PhysicsWorld_new ==
    [bodies |-> <<>>, gravity_x |-> 0, gravity_y |-> 0, collisions |-> {}, steps |-> 0]

\* Graph::new()
Graph_new == [nodes |-> <<>>]

\* the last call returned nothing, or there was none
NoRes == [call |-> "none"]

\* no script has made a spatial db, a physics world or a graph
NoEngine ==
    /\ db = SpatialDb_new(1)
    /\ phys = PhysicsWorld_new
    /\ graph = Graph_new
    /\ got = NoRes

\* ------------------------------------------------------- CommandBuffer

\* One record of a buffer. `tag` stands for the arguments of the call: the
\* script names its sounds and texts after the callback that issues them.
Cmd(op, tag) == [op |-> op, tag |-> tag]

cmd_clear_screen(data, tag) == Append(data, Cmd(OP_CLEAR, tag))
cmd_set_color(data, tag) == Append(data, Cmd(OP_SET_COLOR, tag))
cmd_fill_rect(data, tag) == Append(data, Cmd(OP_FILL_RECT, tag))
cmd_draw_line(data, tag) == Append(data, Cmd(OP_DRAW_LINE, tag))
cmd_draw_text(data, tag) == Append(data, Cmd(OP_DRAW_TEXT, tag))
cmd_load_sound(data, tag) == Append(data, Cmd(OP_LOAD_SOUND, tag))
cmd_play_sound(data, tag) == Append(data, Cmd(OP_PLAY_SOUND, tag))
cmd_stop_sound(data, tag) == Append(data, Cmd(OP_STOP_SOUND, tag))
cmd_set_volume(data, tag) == Append(data, Cmd(OP_SET_VOLUME, tag))

\* CommandBuffer::append: self.data followed by other.data
append(data, other_data) == data \o other_data

\* ----------------------------------------------------------- GameState

\* The api bindings: each closure holds a clone of the buffer(s) it writes.
api_clear_screen(g, tag) == [g EXCEPT !.command_buffer = cmd_clear_screen(@, tag)]
api_set_color(g, tag) == [g EXCEPT !.command_buffer = cmd_set_color(@, tag)]
api_fill_rect(g, tag) == [g EXCEPT !.command_buffer = cmd_fill_rect(@, tag)]
api_draw_line(g, tag) == [g EXCEPT !.command_buffer = cmd_draw_line(@, tag)]
api_draw_text(g, tag) == [g EXCEPT !.command_buffer = cmd_draw_text(@, tag)]
api_load_sound(g, tag) == [g EXCEPT !.command_buffer = cmd_load_sound(@, tag)]

api_play_sound(g, tag) ==
    IF g.current_mode = "Update"
    THEN [g EXCEPT !.event_buffer = cmd_play_sound(@, tag)]
    ELSE [g EXCEPT !.command_buffer = cmd_play_sound(@, tag)]

api_stop_sound(g, tag) ==
    IF g.current_mode = "Update"
    THEN [g EXCEPT !.event_buffer = cmd_stop_sound(@, tag)]
    ELSE [g EXCEPT !.command_buffer = cmd_stop_sound(@, tag)]

\* set_volume bound without the mode branch
api_set_volume_local(g, tag) ==
    [g EXCEPT !.command_buffer = cmd_set_volume(@, tag)]

api_set_volume(g, tag) ==
    IF g.current_mode = "Update"
    THEN [g EXCEPT !.event_buffer = cmd_set_volume(@, tag)]
    ELSE [g EXCEPT !.command_buffer = cmd_set_volume(@, tag)]

\* A script's call api.<fn>(...)
Api(g, fn, tag) ==
    CASE fn = "clear_screen" -> api_clear_screen(g, tag)
      [] fn = "set_color" -> api_set_color(g, tag)
      [] fn = "fill_rect" -> api_fill_rect(g, tag)
      [] fn = "draw_line" -> api_draw_line(g, tag)
      [] fn = "draw_text" -> api_draw_text(g, tag)
      [] fn = "load_sound" -> api_load_sound(g, tag)
      [] fn = "play_sound" -> api_play_sound(g, tag)
      [] fn = "stop_sound" -> api_stop_sound(g, tag)
      [] fn = "set_volume" -> api_set_volume(g, tag)

\* The script's top level and its init() run inside GameState::new, on two
\* empty buffers in mode Update: `calls` are the api calls they make.
RECURSIVE RunScript(_, _, _)
RunScript(g, calls, tag) ==
    IF calls = <<>> THEN g
    ELSE RunScript(Api(g, Head(calls), tag), Tail(calls), tag)

GameState_new(calls, tag) ==
    RunScript([command_buffer |-> <<>>, event_buffer |-> <<>>,
               current_mode |-> "Update"], calls, tag)

\* GameState::begin_frame
begin_frame(g) == [g EXCEPT !.event_buffer = <<>>]

\* update that leaves the mode as it finds it
update_nomode(g) == g

\* GameState::update up to the call of the script's update
update(g) == [g EXCEPT !.current_mode = "Update"]

\* draw that takes the events out of the event buffer
draw_drain(g) ==
    [g EXCEPT !.current_mode = "Draw",
              !.command_buffer = append(<<>>, g.event_buffer),
              !.event_buffer = <<>>]

\* draw without command_buffer.clear()
draw_keep(g) ==
    [g EXCEPT !.current_mode = "Draw",
              !.command_buffer = append(g.command_buffer, g.event_buffer)]

\* draw without command_buffer.append(&events)
draw_noevents(g) ==
    [g EXCEPT !.current_mode = "Draw", !.command_buffer = <<>>]

\* GameState::draw up to the call of the script's draw: the mode, the clear
\* of the frame-local buffer and the copy of the events
draw(g) ==
    [g EXCEPT !.current_mode = "Draw",
              !.command_buffer = append(<<>>, g.event_buffer)]

\* GameState::on_connect up to the call of the script's on_connect
on_connect(g) == [g EXCEPT !.command_buffer = <<>>]

\* GameState::handle_input, on_disconnect and eval change nothing before the
\* script runs
handle_input(g) == g
on_disconnect(g) == g
eval(g) == g

\* What a GameState method does before it calls into the script.
Enter(g, kind) ==
    CASE kind = "update" -> update(g)
      [] kind = "draw" -> draw(g)
      [] kind = "on_connect" -> on_connect(g)
      [] kind = "handle_input" -> handle_input(g)
      [] kind = "on_disconnect" -> on_disconnect(g)
      [] kind = "eval" -> eval(g)

\* CommandBuffer::get_bytes of the frame-local buffer: the Ok value of draw
\* and of on_connect
get_bytes(g) == g.command_buffer

\* The value a GameState method returns when the script callback returned
\* (ok) or raised an error (~ok): Bytes for draw and on_connect, () otherwise.
Returned(g, kind, ok) ==
    IF ok /\ kind \in {"draw", "on_connect"} THEN get_bytes(g) ELSE <<>>

\* ------------------------------------------------- script on the sim thread

\* The api calls of one callback: at most n calls of the functions fns
Calls(fns, n) == UNION {[1..k -> fns] : k \in 0..n}

\* The arguments a callback passes to the api: a script that names its sounds
\* and texts after the callback issuing them (named), or one that uses the
\* same arguments everywhere.
Tag(s, kind, sid) == IF s.named THEN <<kind, sid>> ELSE <<>>

\* The sound calls among `calls`, as ev_log records them
SoundCalls(calls, tag) ==
    LET F(fn) == fn \in SoundFns
    IN [i \in 1..Len(SelectSeq(calls, F)) |-> <<SelectSeq(calls, F)[i], tag>>]

\* The api calls callback `kind` of the loaded script may make
ScriptCalls(kind, n) ==
    IF kind \in script.emitters THEN Calls(script.fns, n) ELSE {<<>>}

NoRet == [kind |-> "none", sid |-> 0, ok |-> TRUE, bytes |-> <<>>, emitted |-> <<>>]

\* GameState method `kind` is called for session sid (0: no session); the
\* script callback makes the api calls `calls` and then returns (ok) or raises
\* a script error (~ok).
DoCall(kind, sid, calls, ok) ==
    LET g == RunScript(Enter(game, kind), calls, Tag(script, kind, sid))
    IN /\ game' = g
       /\ ret' = [kind |-> kind, sid |-> sid, ok |-> ok,
                  bytes |-> Returned(g, kind, ok), emitted |-> calls]
       /\ ev_log' = IF Enter(game, kind).current_mode = "Update"
                    THEN ev_log \o SoundCalls(calls, Tag(script, kind, sid))
                    ELSE ev_log
       /\ UNCHANGED script

\* A GameState right after GameState::new(script), whose top level and init()
\* made the api calls `calls`
Loaded(s, calls) ==
    /\ script = s
    /\ game = GameState_new(calls, Tag(s, "init", 0))
    /\ ev_log = SoundCalls(calls, Tag(s, "init", 0))
    /\ ret = NoRet

\* --------------------------------------- GameState driven by any host

AllCallbacks == SessionCallbacks \cup GlobalCallbacks \cup {"init"}

\* The scripts a GameState is tested with: each calls one sound function and
\* one drawing function, and between them they call all nine.
HostScripts ==
    {[fns |-> {"play_sound", "clear_screen"}, named |-> FALSE, emitters |-> AllCallbacks],
     [fns |-> {"stop_sound", "set_color"}, named |-> FALSE, emitters |-> AllCallbacks],
     [fns |-> {"set_volume", "fill_rect"}, named |-> FALSE, emitters |-> AllCallbacks],
     [fns |-> {"play_sound", "draw_line"}, named |-> FALSE, emitters |-> AllCallbacks],
     [fns |-> {"stop_sound", "draw_text"}, named |-> FALSE, emitters |-> AllCallbacks],
     [fns |-> {"set_volume", "load_sound"}, named |-> FALSE, emitters |-> AllCallbacks]}

NoSend == "none"

\* The connection whose network task is followed step by step
Me == 1

\* The network task of connection Me:
\*   first     kind of the first message sent on the websocket
\*   dc        active_dc: "None", or the state of the data channel stored
\*   ws_frame  the relay queue tx_ws_frame / rx_ws_frame
\*   taken     frames the coordinator has received from the render queue,
\*             numbered 1, 2, .. in that order
\*   sent_on   the channels each of these frames was sent on
\*   rcv       the last message received from the client: channel and body
\*   wait      the input the websocket loop is suspended on in tx_input.send
\*   dc_wait   the input an on_message future is suspended on in tx.send
\*   dbg_wait  debug_handler calls suspended in tx.send
NoInput == <<>>
NoIo == [first |-> "none", dc |-> "None", ws_frame |-> <<>>, taken |-> 0,
         sent_on |-> [f \in 1..MaxFrames |-> {}],
         rcv |-> <<"none", <<>>>>, wait |-> NoInput, dc_wait |-> NoInput,
         dbg_wait |-> 0]
\* Uuid::new_v4(): the session id a connection gets when it asks for none;
\* no two connections get the same
Uuids == [c \in Conns |-> c]

NoTick == [began |-> FALSE, upd |-> 0, drawn |-> [c \in Conns |-> 0],
           conn |-> [c \in Conns |-> 0]]

\* the frame loop and the network do not run
IdleServer ==
    /\ pc = "host" /\ idx = 1 /\ clients = <<>> /\ new_clients = <<>>
    /\ notify = FALSE /\ rx_debug = 0
    /\ rq = [c \in Conns |-> <<>>] /\ rx_render = [c \in Conns |-> FALSE]
    /\ inq = [c \in Conns |-> <<>>] /\ tx_input = [c \in Conns |-> FALSE]
    /\ net = [c \in Conns |-> "start"] /\ n_in = [c \in Conns |-> 0]
    /\ io = NoIo
    /\ session = Uuids
    /\ delivered = [c \in Conns |-> <<>>] /\ disc = [c \in Conns |-> 0]
    /\ sent = [c \in Conns |-> NoSend]
    /\ tick = NoTick /\ upd_emitted = <<>>

NoServer == IdleServer /\ NoEngine

\* a script that only builds and uses the library: no api call, no server
LibraryHost ==
    /\ Loaded([fns |-> {}, named |-> TRUE, emitters |-> {}], <<>>)
    /\ IdleServer

servervars == <<pc, idx, clients, new_clients, notify, rx_debug,
                rq, rx_render, inq, tx_input, net, n_in, io, session, delivered, disc, sent,
                db, phys, graph, got,
                tick, upd_emitted>>

GS_Init ==
    /\ \E s \in HostScripts : \E calls \in Calls(s.fns, MaxEmit) : Loaded(s, calls)
    /\ NoServer

GS_begin_frame ==
    /\ pc = "host"
    /\ game' = begin_frame(game)
    /\ ev_log' = <<>>
    /\ ret' = NoRet
    /\ UNCHANGED <<engvars, script, servervars>>

\* any method, for any session, with any script behaviour that fits the
\* buffers' bounds
GS_Call(kind, sid, calls, ok) ==
    /\ pc = "host"
    /\ DoCall(kind, sid, calls, ok)
    /\ Len(game'.event_buffer) <= MaxEvents
    /\ Len(game'.command_buffer) <= MaxBuf
    /\ UNCHANGED servervars

GS_update(calls, ok) == GS_Call("update", 0, calls, ok)
GS_draw(sid, calls, ok) == GS_Call("draw", sid, calls, ok)
GS_handle_input(sid, calls, ok) == GS_Call("handle_input", sid, calls, ok)
GS_on_connect(sid, calls, ok) == GS_Call("on_connect", sid, calls, ok)
GS_on_disconnect(sid, calls, ok) == GS_Call("on_disconnect", sid, calls, ok)
GS_eval(calls, ok) == GS_Call("eval", 0, calls, ok)

GS_Next ==
    \/ GS_begin_frame
    \/ \E calls \in Calls(script.fns, MaxEmit), ok \in BOOLEAN :
           \/ GS_update(calls, ok)
           \/ GS_eval(calls, ok)
           \/ \E sid \in Conns :
                  \/ GS_draw(sid, calls, ok)
                  \/ GS_handle_input(sid, calls, ok)
                  \/ GS_on_connect(sid, calls, ok)
                  \/ GS_on_disconnect(sid, calls, ok)

SpecGameState == GS_Init /\ [][GS_Next]_vars

\* ------------------------------------------------------ tokio channels

\* Sender::try_send on a bounded channel: Closed once the receiver is
\* dropped, Full when `cap` messages are queued, Ok otherwise
try_send(q, rx_alive, cap) ==
    IF ~rx_alive THEN "Closed"
    ELSE IF Len(q) >= cap THEN "Full"
    ELSE "Ok"

\* try_recv that reports Disconnected as soon as every sender is dropped
try_recv_closed_first(q, tx_alive) ==
    IF ~tx_alive THEN "Disconnected"
    ELSE IF q # <<>> THEN "Ok"
    ELSE "Empty"

\* Receiver::try_recv: a queued message first; with none queued, Disconnected
\* when every sender is dropped and Empty otherwise
try_recv(q, tx_alive) ==
    IF q # <<>> THEN "Ok"
    ELSE IF tx_alive THEN "Empty"
    ELSE "Disconnected"

\* try_recv hands out the oldest message of the queue, not the newest
recv_value_newest(q) == q[Len(q)]
\* The message of Ok(message): the oldest of the queue
recv_value(q) == Head(q)

\* ------------------------------------------------------- the frame loop

Range(f) == {f[i] : i \in DOMAIN f}
RemoveAt(seq, i) == SubSeq(seq, 1, i - 1) \o SubSeq(seq, i + 1, Len(seq))

\* a send that puts the message in the queue whatever its occupancy
Enqueue_force(q, c, bytes) ==
    [q EXCEPT ![c] = Append(@, bytes)]

\* a send that puts the message in the queue twice
Enqueue_twice(q, c, bytes) ==
    IF try_send(q[c], rx_render[c], RenderCap) = "Ok"
    THEN [q EXCEPT ![c] = Append(Append(@, bytes), bytes)]
    ELSE q

\* the render queue of c after `let _ = tx_render.try_send(bytes)`
Enqueue(q, c, bytes) ==
    IF try_send(q[c], rx_render[c], RenderCap) = "Ok"
    THEN [q EXCEPT ![c] = Append(@, bytes)]
    ELSE q

\* A GameState method called from the frame loop
LoopCall(kind, sid, calls, ok) ==
    /\ DoCall(kind, IF sid \in Conns THEN session[sid] ELSE sid, calls, ok)
    /\ tick' = CASE kind = "update" -> [tick EXCEPT !.upd = @ + 1]
                 [] kind = "draw" -> [tick EXCEPT !.drawn[sid] = @ + 1]
                 [] kind = "on_connect" -> [tick EXCEPT !.conn[sid] = @ + 1]
                 [] OTHER -> tick
    /\ disc' = IF kind = "on_disconnect" THEN [disc EXCEPT ![sid] = @ + 1] ELSE disc

\* the render pass treating a full queue like a closed one
DrawRetain_full(ok, res) ==
    IF ok THEN res = "Ok" ELSE TRUE

\* the render pass dropping the client whose draw failed
DrawRetain_strict(ok, res) ==
    ok /\ res # "Closed"

\* What the closure of the render pass returns (retain keeps the client on
\* true): true when draw failed, else by the result of try_send
DrawRetain(ok, res) ==
    IF ok THEN res # "Closed" ELSE TRUE

ServerInit(s) ==
    /\ \E calls \in IF "init" \in s.emitters THEN Calls(s.fns, MaxLoopEmit) ELSE {<<>>} :
           Loaded(s, calls)
    /\ pc = "top"
    /\ idx = 1
    /\ clients = <<>>
    /\ new_clients = <<>>
    /\ notify = FALSE
    /\ rx_debug = 0
    /\ rq = [c \in Conns |-> <<>>]
    /\ rx_render = [c \in Conns |-> FALSE]
    /\ inq = [c \in Conns |-> <<>>]
    /\ tx_input = [c \in Conns |-> FALSE]
    /\ net = [c \in Conns |-> "start"]
    /\ n_in = [c \in Conns |-> 0]
    /\ io = NoIo
    /\ session = Uuids
    /\ NoEngine
    /\ delivered = [c \in Conns |-> <<>>]
    /\ disc = [c \in Conns |-> 0]
    /\ sent = [c \in Conns |-> NoSend]
    /\ tick = NoTick
    /\ upd_emitted = <<>>

\* a failed load that leaves a fresh, empty game state behind
L_ReloadFail_reset ==
    /\ pc = "top" /\ notify
    /\ notify' = FALSE
    /\ game' = GameState_new(<<>>, <<>>)
    /\ pc' = "begin"
    /\ UNCHANGED <<engvars, script, ret, ev_log, idx, clients, new_clients, rx_debug,
                   chanvars, netvars, histvars>>

\* 1. Hot reload: the signal is drained and load_game returns None
L_ReloadFail ==
    /\ pc = "top" /\ notify
    /\ notify' = FALSE
    /\ pc' = "begin"
    /\ UNCHANGED <<engvars, gsvars, idx, clients, new_clients, rx_debug,
                   chanvars, netvars, histvars>>

\* the replay starting at the second client of the list
L_ReloadSwap_skip(calls) ==
    /\ pc = "top" /\ notify
    /\ notify' = FALSE
    /\ game' = GameState_new(calls, Tag(script, "init", 0))
    /\ ev_log' = SoundCalls(calls, Tag(script, "init", 0))
    /\ ret' = NoRet
    /\ pc' = "replay"
    /\ idx' = 2
    /\ tick' = NoTick
    /\ UNCHANGED <<engvars, script, clients, new_clients, rx_debug,
                   chanvars, netvars, delivered, disc, sent, upd_emitted>>

\* 1. Hot reload: load_game returns a new GameState, which replaces the old
L_ReloadSwap(calls) ==
    /\ pc = "top" /\ notify
    /\ notify' = FALSE
    /\ game' = GameState_new(calls, Tag(script, "init", 0))
    /\ ev_log' = SoundCalls(calls, Tag(script, "init", 0))
    /\ ret' = NoRet
    /\ pc' = "replay"
    /\ idx' = 1
    /\ tick' = NoTick
    /\ UNCHANGED <<engvars, script, clients, new_clients, rx_debug,
                   chanvars, netvars, delivered, disc, sent, upd_emitted>>

\* on_connect is replayed for the next client of the list; its bytes are
\* sent when it succeeded
L_Replay(calls, ok) ==
    /\ pc = "replay" /\ idx <= Len(clients)
    /\ LoopCall("on_connect", clients[idx], calls, ok)
    /\ rq' = IF ok THEN Enqueue(rq, clients[idx], get_bytes(game')) ELSE rq
    /\ sent' = [sent EXCEPT ![clients[idx]] =
                   IF ok THEN try_send(rq[clients[idx]], rx_render[clients[idx]], RenderCap)
                   ELSE "Err"]
    /\ idx' = idx + 1
    /\ UNCHANGED <<engvars, pc, clients, new_clients, notify, rx_debug,
                   rx_render, inq, tx_input, netvars, delivered, upd_emitted>>

L_ReplayDone ==
    /\ pc = "replay" /\ idx > Len(clients)
    /\ pc' = "begin"
    /\ UNCHANGED <<engvars, gsvars, idx, clients, new_clients, notify, rx_debug, chanvars, netvars, histvars>>

\* game.begin_frame() (no file-changed signal is pending, or the reload is
\* over), then the lock of the admission queue is taken
L_BeginFrame ==
    /\ (pc = "top" /\ ~notify) \/ pc = "begin"
    /\ game' = begin_frame(game)
    /\ ev_log' = <<>>
    /\ ret' = NoRet
    /\ pc' = "accept"
    /\ sent' = [c \in Conns |-> NoSend]
    /\ tick' = [NoTick EXCEPT !.began = TRUE]
    /\ upd_emitted' = <<>>
    /\ UNCHANGED <<engvars, script, idx, clients, new_clients, notify, rx_debug, chanvars, netvars, delivered, disc>>

\* 2. Accept new clients: queue.pop() takes the last connection pushed;
\* on_connect is called, its bytes are sent when it succeeded, and the client
\* is pushed to the active list either way
L_Accept(calls, ok) ==
    /\ pc = "accept" /\ new_clients # <<>>
    /\ LET c == new_clients[Len(new_clients)]
       IN /\ LoopCall("on_connect", c, calls, ok)
          /\ rq' = IF ok THEN Enqueue(rq, c, get_bytes(game')) ELSE rq
          /\ clients' = Append(clients, c)
    /\ new_clients' = SubSeq(new_clients, 1, Len(new_clients) - 1)
    /\ UNCHANGED <<engvars, pc, idx, notify, rx_debug, rx_render, inq,
                   tx_input, netvars, delivered, sent, upd_emitted>>

\* the admission queue is empty (its lock is released) and no debug request
\* is pending
L_DebugNone ==
    /\ pc = "accept" /\ new_clients = <<>> /\ rx_debug = 0
    /\ pc' = "input"
    /\ idx' = 1
    /\ UNCHANGED <<engvars, gsvars, clients, new_clients, notify, rx_debug,
                   chanvars, netvars, histvars>>

\* Handle debug: one request is received and evaluated, the reply is sent
L_DebugEval(calls, ok) ==
    /\ pc = "accept" /\ new_clients = <<>> /\ rx_debug > 0
    /\ rx_debug' = rx_debug - 1
    /\ LoopCall("eval", 0, calls, ok)
    /\ pc' = "input"
    /\ idx' = 1
    /\ UNCHANGED <<engvars, clients, new_clients, notify, chanvars,
                   netvars, delivered, sent, upd_emitted>>

\* 3. Process inputs: try_recv returns an input, handed to handle_input
L_InputOk(calls, ok) ==
    /\ pc = "input" /\ idx <= Len(clients)
    /\ LET c == clients[idx]
       IN /\ try_recv(inq[c], tx_input[c]) = "Ok"
          /\ inq' = [inq EXCEPT ![c] = Tail(@)]
          /\ delivered' = [delivered EXCEPT ![c] = Append(@, recv_value(inq[c]))]
          /\ LoopCall("handle_input", c, calls, ok)
    /\ UNCHANGED <<engvars, loopvars, rq, rx_render, tx_input, netvars, sent, upd_emitted>>

\* try_recv returns Empty: the client is kept, the pass moves on
L_InputEmpty ==
    /\ pc = "input" /\ idx <= Len(clients)
    /\ try_recv(inq[clients[idx]], tx_input[clients[idx]]) = "Empty"
    /\ idx' = idx + 1
    /\ UNCHANGED <<engvars, gsvars, pc, clients, new_clients, notify, rx_debug, chanvars, netvars, histvars>>

\* try_recv returns Disconnected: on_disconnect is called (its result is
\* ignored) and the client is removed
L_InputDisconnected(calls, ok) ==
    /\ pc = "input" /\ idx <= Len(clients)
    /\ try_recv(inq[clients[idx]], tx_input[clients[idx]]) = "Disconnected"
    /\ LoopCall("on_disconnect", clients[idx], calls, ok)
    /\ clients' = RemoveAt(clients, idx)
    /\ UNCHANGED <<engvars, pc, idx, new_clients, notify, rx_debug,
                   chanvars, netvars, delivered, sent, upd_emitted>>

\* 4. Update world
L_Update(calls, ok) ==
    /\ pc = "input" /\ idx > Len(clients)
    /\ LoopCall("update", 0, calls, ok)
    /\ upd_emitted' = calls
    /\ pc' = "draw"
    /\ idx' = 1
    /\ UNCHANGED <<engvars, clients, new_clients, notify, rx_debug,
                   chanvars, netvars, delivered, sent>>

\* 5. Render for each client: draw; on Ok the bytes are sent with try_send;
\* the client is kept unless the render channel is closed
L_Draw(calls, ok) ==
    /\ pc = "draw" /\ idx <= Len(clients)
    /\ LET c == clients[idx]
           res == try_send(rq[c], rx_render[c], RenderCap)
       IN /\ LoopCall("draw", c, calls, ok)
          /\ rq' = IF ok THEN Enqueue(rq, c, get_bytes(game')) ELSE rq
          /\ sent' = [sent EXCEPT ![c] = IF ok THEN res ELSE "Err"]
          /\ IF DrawRetain(ok, res)
             THEN pc' = "draw" /\ idx' = idx + 1
             ELSE pc' = "closed" /\ idx' = idx
    /\ UNCHANGED <<engvars, clients, new_clients, notify, rx_debug,
                   rx_render, inq, tx_input, netvars, delivered, upd_emitted>>

\* removal that also steps over the client that moves into the freed slot
L_Closed_skip(calls, ok) ==
    /\ pc = "closed"
    /\ LoopCall("on_disconnect", clients[idx], calls, ok)
    /\ clients' = RemoveAt(clients, idx)
    /\ pc' = "draw"
    /\ idx' = idx + 1
    /\ UNCHANGED <<engvars, new_clients, notify, rx_debug, chanvars,
                   netvars, delivered, sent, upd_emitted>>

\* the render channel is closed: on_disconnect is called (its result is
\* ignored) and the client is removed
L_Closed(calls, ok) ==
    /\ pc = "closed"
    /\ LoopCall("on_disconnect", clients[idx], calls, ok)
    /\ clients' = RemoveAt(clients, idx)
    /\ pc' = "draw"
    /\ UNCHANGED <<engvars, idx, new_clients, notify, rx_debug, chanvars,
                   netvars, delivered, sent, upd_emitted>>

\* every client is rendered: the iteration ends (its locals are dropped) and
\* the loop sleeps until the next one
L_Sleep ==
    /\ pc = "draw" /\ idx > Len(clients)
    /\ pc' = "top"
    /\ idx' = 1
    /\ ret' = NoRet
    /\ sent' = [c \in Conns |-> NoSend]
    /\ tick' = NoTick
    /\ upd_emitted' = <<>>
    /\ UNCHANGED <<engvars, script, game, ev_log, clients, new_clients, notify, rx_debug, chanvars, netvars, delivered, disc>>

\* ---------------------------------------------------- the network tasks

\* handle_socket sends WELCOME on the websocket; on a send error it returns.
\* Connections are numbered in the order in which they are upgraded.
N_Welcome(c, sent_ok) ==
    /\ net[c] = "start"
    /\ IF c = 1 THEN TRUE ELSE net[c - 1] # "start"
    /\ net' = [net EXCEPT ![c] = IF sent_ok THEN "welcome" ELSE "done"]
    /\ UNCHANGED <<session, engvars, gsvars, loopvars, chanvars, n_in, io, histvars>>

\* handle_socket creates the two channels and pushes the connection to the
\* admission queue, under its lock (which the frame loop holds while it admits)
N_Push(c) ==
    /\ net[c] = "welcome"
    /\ pc # "accept"
    /\ new_clients' = Append(new_clients, c)
    /\ rx_render' = [rx_render EXCEPT ![c] = TRUE]
    /\ tx_input' = [tx_input EXCEPT ![c] = TRUE]
    /\ net' = [net EXCEPT ![c] = "run"]
    /\ UNCHANGED <<session, engvars, gsvars, pc, idx, clients, notify, rx_debug,
                   rq, inq, n_in, io, histvars>>

\* the receiver of the input queue lives in the ClientConnection, then in the
\* ActiveClient
RxInputAlive(c) == c \in Range(new_clients) \cup Range(clients)

RECURSIVE SumTo(_, _)
SumTo(f, n) == IF n = 0 THEN 0 ELSE f[n] + SumTo(f, n - 1)
\* inputs accepted so far, over all connections
InputsSent == SumTo(n_in, NConns)

\* a 2-byte input arrives (data channel or websocket) and tx.send(..).await
\* completes: there is room in the queue and its receiver exists
N_Input(c) ==
    /\ tx_input[c]
    /\ RxInputAlive(c)
    /\ InputsSent < MaxInputs
    /\ Len(inq[c]) < InputCap
    /\ inq' = [inq EXCEPT ![c] = Append(@, n_in[c] + 1)]
    /\ n_in' = [n_in EXCEPT ![c] = @ + 1]
    /\ UNCHANGED <<session, engvars, gsvars, loopvars, rq, rx_render, tx_input, net, io, histvars>>

\* the coordinator task receives the next frame of the render queue
N_Recv(c) ==
    /\ rx_render[c]
    /\ rq[c] # <<>>
    /\ rq' = [rq EXCEPT ![c] = Tail(@)]
    /\ UNCHANGED <<engvars, gsvars, loopvars, rx_render, inq, tx_input, netvars, histvars>>

\* the websocket loop of handle_socket ends (or handle_socket returns early
\* after the push): cleanup starts
N_Close(c) ==
    /\ net[c] = "run"
    /\ net' = [net EXCEPT ![c] = "done"]
    /\ UNCHANGED <<session, engvars, gsvars, loopvars, chanvars, n_in, io, histvars>>

\* the coordinator task is aborted: rx_render is dropped, which closes the
\* channel and drops the frames still queued
N_DropRender(c) ==
    /\ net[c] = "done"
    /\ rx_render[c]
    /\ rx_render' = [rx_render EXCEPT ![c] = FALSE]
    /\ rq' = [rq EXCEPT ![c] = <<>>]
    /\ UNCHANGED <<engvars, gsvars, loopvars, inq, tx_input, netvars, histvars>>

\* the last sender of the input queue is dropped
N_DropInput(c) ==
    /\ net[c] = "done"
    /\ tx_input[c]
    /\ tx_input' = [tx_input EXCEPT ![c] = FALSE]
    /\ UNCHANGED <<engvars, gsvars, loopvars, rq, rx_render, inq, netvars, histvars>>

\* The file watcher reports a modification. The loop reads the signal only at
\* the top of an iteration and drains all of it, so signals sent during an
\* iteration are received as one signal sent at its end.
N_FileChanged ==
    /\ pc = "top" /\ ~notify
    /\ notify' = TRUE
    /\ UNCHANGED <<engvars, gsvars, pc, idx, clients, new_clients, rx_debug,
                   chanvars, netvars, histvars>>

\* debug_handler sends a request into the debug channel. The loop reads the
\* channel once per iteration, after admission, so a request sent during an
\* iteration is received as one sent at its end.
N_Debug ==
    /\ pc = "top" /\ rx_debug < DebugCap
    /\ rx_debug' = rx_debug + 1
    /\ UNCHANGED <<engvars, gsvars, pc, idx, clients, new_clients, notify, chanvars, netvars, histvars>>

LoopNext ==
    \/ L_ReloadFail
    \/ \E calls \in ScriptCalls("init", MaxLoopEmit) : L_ReloadSwap(calls)
    \/ L_ReplayDone
    \/ L_BeginFrame
    \/ L_DebugNone
    \/ L_InputEmpty
    \/ L_Sleep
    \/ \E ok \in BOOLEAN :
           \/ \E calls \in ScriptCalls("on_connect", MaxLoopEmit) :
                  L_Replay(calls, ok) \/ L_Accept(calls, ok)
           \/ \E calls \in ScriptCalls("eval", MaxLoopEmit) : L_DebugEval(calls, ok)
           \/ \E calls \in ScriptCalls("handle_input", MaxLoopEmit) : L_InputOk(calls, ok)
           \/ \E calls \in ScriptCalls("on_disconnect", MaxLoopEmit) :
                  L_InputDisconnected(calls, ok) \/ L_Closed(calls, ok)
           \/ \E calls \in ScriptCalls("update", MaxLoopEmit) : L_Update(calls, ok)
           \/ \E calls \in ScriptCalls("draw", MaxLoopEmit) : L_Draw(calls, ok)

NetNext ==
    \/ N_FileChanged
    \/ N_Debug
    \/ \E c \in Conns :
           \/ \E sent_ok \in BOOLEAN : N_Welcome(c, sent_ok)
           \/ N_Push(c)
           \/ N_Input(c)
           \/ N_Recv(c)
           \/ N_Close(c)
           \/ N_DropRender(c)
           \/ N_DropInput(c)

Next == LoopNext \/ NetNext

\* The server running a script whose callbacks write no commands
SilentScript == [fns |-> {}, named |-> TRUE, emitters |-> {}]
Init == ServerInit(SilentScript)
Spec == Init /\ [][Next]_vars

\* The server running a script that may call play_sound from on_connect, from
\* update and from draw, and names each sound after the callback
AudioScript == [fns |-> {"play_sound"}, named |-> TRUE,
                emitters |-> {"on_connect", "update", "draw"}]
AudioInit == ServerInit(AudioScript)

\* ... with debugging disabled (rx_debug is None), a script file that is not
\* modified and clients that send no input
AudioLoopNext ==
    \/ L_BeginFrame
    \/ L_DebugNone
    \/ L_InputEmpty
    \/ L_Sleep
    \/ \E ok \in BOOLEAN :
           \/ \E calls \in ScriptCalls("on_connect", MaxLoopEmit) : L_Accept(calls, ok)
           \/ \E calls \in ScriptCalls("on_disconnect", MaxLoopEmit) :
                  L_InputDisconnected(calls, ok) \/ L_Closed(calls, ok)
           \/ \E calls \in ScriptCalls("update", MaxLoopEmit) : L_Update(calls, ok)
           \/ \E calls \in ScriptCalls("draw", MaxLoopEmit) : L_Draw(calls, ok)

AudioNetNext ==
    \E c \in Conns :
        \/ \E sent_ok \in BOOLEAN : N_Welcome(c, sent_ok)
        \/ N_Push(c)
        \/ N_Recv(c)
        \/ N_Close(c)
        \/ N_DropRender(c)
        \/ N_DropInput(c)

AudioNext == AudioLoopNext \/ AudioNetNext
SpecAudio == AudioInit /\ [][AudioNext]_vars

\* ------------------------------- the network task of one connection, in detail

\* the kind of the first message sent on the websocket, after one more send
WsFirst(first, kind) == IF first = "none" THEN kind ELSE first

\* a handshake whose send error is ignored
H_Welcome_ignore(sent_ok) ==
    /\ net[Me] = "start"
    /\ net' = [net EXCEPT ![Me] = "welcome"]
    /\ io' = IF sent_ok THEN [io EXCEPT !.first = WsFirst(@, "WELCOME")] ELSE io
    /\ UNCHANGED <<session, engvars, gsvars, loopvars, chanvars, n_in, histvars>>

\* 1. handle_socket sends WELCOME on the websocket; on a send error it returns
H_Welcome(sent_ok) ==
    /\ net[Me] = "start"
    /\ net' = [net EXCEPT ![Me] = IF sent_ok THEN "welcome" ELSE "done"]
    /\ io' = IF sent_ok THEN [io EXCEPT !.first = WsFirst(@, "WELCOME")] ELSE io
    /\ UNCHANGED <<session, engvars, gsvars, loopvars, chanvars, n_in, histvars>>

\* 2. the two channels are created and the connection is pushed to the
\* admission queue, under its lock
H_Push ==
    /\ net[Me] = "welcome"
    /\ pc # "accept"
    /\ new_clients' = Append(new_clients, Me)
    /\ rx_render' = [rx_render EXCEPT ![Me] = TRUE]
    /\ tx_input' = [tx_input EXCEPT ![Me] = TRUE]
    /\ net' = [net EXCEPT ![Me] = "setup"]
    /\ UNCHANGED <<session, engvars, gsvars, pc, idx, clients, notify, rx_debug,
                   rq, inq, n_in, io, histvars>>

\* 3. the WebRTC registry or the peer connection cannot be made:
\* handle_socket returns (its channel ends are dropped as it does)
H_SetupFail ==
    /\ net[Me] = "setup"
    /\ net' = [net EXCEPT ![Me] = "done"]
    /\ UNCHANGED <<session, engvars, gsvars, loopvars, chanvars, n_in, io, histvars>>

\* 4.-6. the callbacks are registered, the coordinator task is spawned and
\* the websocket loop is entered
H_Spawn ==
    /\ net[Me] = "setup"
    /\ net' = [net EXCEPT ![Me] = "run"]
    /\ UNCHANGED <<session, engvars, gsvars, loopvars, chanvars, n_in, io, histvars>>

\* the data channel the client created opens: on_open stores it in active_dc
DC_Open ==
    /\ net[Me] = "run" /\ io.dc = "None"
    /\ io' = [io EXCEPT !.dc = "Open"]
    /\ UNCHANGED <<session, engvars, gsvars, loopvars, chanvars, net, n_in, histvars>>

\* the data channel leaves the Open state; active_dc keeps it
DC_Close ==
    /\ io.dc = "Open"
    /\ io' = [io EXCEPT !.dc = "Closed"]
    /\ UNCHANGED <<session, engvars, gsvars, loopvars, chanvars, net, n_in, histvars>>

\* a coordinator that does not look at ready_state
Route_any(dc, send_ok) ==
    IF dc # "None" /\ send_ok THEN "udp" ELSE "ws"

\* The channel the coordinator sends a frame on: the data channel when one is
\* stored, it is Open and dc.send succeeds (sent_via_udp), else the websocket
Route(dc, send_ok) ==
    IF dc = "Open" /\ send_ok THEN "udp" ELSE "ws"

\* the receiver of the relay queue lives in the websocket loop
RxWsFrameAlive == net[Me] = "run"

\* The coordinator task receives the next frame from the render queue and
\* sends it: on the data channel, or else into the relay queue, where
\* send(..).await waits for room and fails (ignored) without a receiver
K_Forward(send_ok) ==
    /\ net[Me] \in {"run", "done", "panic"} /\ rx_render[Me]
    /\ rq[Me] # <<>>
    /\ io.taken < MaxFrames
    /\ LET f == io.taken + 1
           udp == Route(io.dc, send_ok) = "udp"
       IN /\ ~udp /\ RxWsFrameAlive => Len(io.ws_frame) < WsFrameCap
          /\ io' = [io EXCEPT !.taken = f,
                              !.sent_on[f] = IF udp THEN @ \cup {"dc"} ELSE @,
                              !.ws_frame = IF ~udp /\ RxWsFrameAlive
                                           THEN Append(@, f) ELSE @]
    /\ rq' = [rq EXCEPT ![Me] = Tail(@)]
    /\ UNCHANGED <<session, engvars, gsvars, loopvars, rx_render, inq, tx_input, net, n_in, histvars>>

\* websocket loop, arm 2: the next frame of the relay queue is sent as a
\* Binary message; on a send error the loop ends (and the relay queue with it)
M_WsFrame(sent_ok) ==
    /\ net[Me] = "run" /\ io.wait = NoInput
    /\ io.ws_frame # <<>>
    /\ LET f == Head(io.ws_frame)
       IN io' = IF sent_ok
                THEN [io EXCEPT !.ws_frame = Tail(@),
                                !.sent_on[f] = @ \cup {"ws"},
                                !.first = WsFirst(@, "Binary")]
                ELSE [io EXCEPT !.ws_frame = <<>>]
    /\ net' = [net EXCEPT ![Me] = IF sent_ok THEN "run" ELSE "done"]
    /\ UNCHANGED <<session, engvars, gsvars, loopvars, chanvars, n_in, histvars>>

\* websocket loop, arm 3: a local ICE candidate is sent as a CANDIDATE
\* message; on a send error the loop ends
M_Signal(sent_ok) ==
    /\ net[Me] = "run" /\ io.wait = NoInput
    /\ io' = IF sent_ok
             THEN [io EXCEPT !.first = WsFirst(@, "CANDIDATE")]
             ELSE [io EXCEPT !.ws_frame = <<>>]
    /\ net' = [net EXCEPT ![Me] = IF sent_ok THEN "run" ELSE "done"]
    /\ UNCHANGED <<session, engvars, gsvars, loopvars, chanvars, n_in, histvars>>

\* websocket loop, arm 1: the websocket is closed or fails; the loop ends
M_Closed ==
    /\ net[Me] = "run" /\ io.wait = NoInput
    /\ net' = [net EXCEPT ![Me] = "done"]
    /\ io' = [io EXCEPT !.ws_frame = <<>>]
    /\ UNCHANGED <<session, engvars, gsvars, loopvars, chanvars, n_in, histvars>>

\* The frame loop with a script that cannot be reloaded, debugging disabled
\* and no input in the queues
BareLoopNext ==
    \/ L_BeginFrame
    \/ L_DebugNone
    \/ L_InputEmpty
    \/ L_Sleep
    \/ \E ok \in BOOLEAN :
           \/ \E calls \in ScriptCalls("on_connect", MaxLoopEmit) : L_Accept(calls, ok)
           \/ \E calls \in ScriptCalls("on_disconnect", MaxLoopEmit) :
                  L_InputDisconnected(calls, ok) \/ L_Closed(calls, ok)
           \/ \E calls \in ScriptCalls("update", MaxLoopEmit) : L_Update(calls, ok)
           \/ \E calls \in ScriptCalls("draw", MaxLoopEmit) : L_Draw(calls, ok)

\* handle_socket up to its websocket loop, and its end
HandshakeNext ==
    \/ \E sent_ok \in BOOLEAN : H_Welcome(sent_ok)
    \/ H_Push
    \/ H_SetupFail
    \/ H_Spawn
    \/ M_Closed
    \/ N_DropRender(Me)
    \/ N_DropInput(Me)

\* what the server sends to the client
OutNext ==
    \/ DC_Open
    \/ DC_Close
    \/ \E ok \in BOOLEAN : K_Forward(ok) \/ M_WsFrame(ok) \/ M_Signal(ok)

\* One connection, from the upgrade to the cleanup, its frames going out on
\* the data channel or the websocket
SpecOut == Init /\ [][BareLoopNext \/ HandshakeNext \/ OutNext]_vars

\* ------------------------------------------- what the client sends, in detail

\* The messages a client sends as input, on either channel: byte strings of
\* length 0 to 3
Msgs == {<<>>, <<7>>, <<7, 0>>, <<7, 2>>, <<7, 2, 0>>}

\* The text messages a client sends on the websocket: text that is not JSON,
\* JSON with an unknown "type", and the four signaling messages, OFFER and
\* ANSWER with an SDP that can or cannot be parsed
Texts == {"not_json", "unknown_type", "WELCOME", "CANDIDATE",
          "OFFER", "OFFER_bad_sdp", "ANSWER", "ANSWER_bad_sdp"}

\* inputs the client sends: one more than its input queue holds
MaxSent == InputCap + 1

\* an input check that lets longer messages pass
IsInput_min(data) == Len(data) >= 2

\* `if data.len() == 2`
IsInput(data) == Len(data) = 2

\* (code, active) = (data[0], data[1] != 0)
InputOf(data) == <<data[1], data[2] # 0>>

\* tx.send(input).await on the input queue: "Err" without a receiver, "Ok"
\* when there is room, and otherwise the sender is suspended
TxSend(q) ==
    IF ~RxInputAlive(Me) THEN "Err"
    ELSE IF Len(q) < InputCap THEN "Ok"
    ELSE "Wait"

\* websocket loop, arm 1, Message::Binary: the fallback input
M_Binary(data) ==
    /\ net[Me] = "run" /\ io.wait = NoInput
    /\ IsInput(data) => n_in[Me] < MaxSent
    /\ LET res == IF IsInput(data) THEN TxSend(inq[Me]) ELSE "Skip"
       IN /\ inq' = IF res = "Ok" THEN [inq EXCEPT ![Me] = Append(@, InputOf(data))]
                    ELSE inq
          /\ io' = [io EXCEPT !.rcv = <<"ws", data>>,
                              !.wait = IF res = "Wait" THEN InputOf(data) ELSE @]
          /\ n_in' = IF IsInput(data) THEN [n_in EXCEPT ![Me] = @ + 1] ELSE n_in
    /\ UNCHANGED <<session, engvars, gsvars, loopvars, rq, rx_render, tx_input, net, histvars>>

\* the send the websocket loop is suspended on completes
M_InputSent ==
    /\ net[Me] = "run" /\ io.wait # NoInput
    /\ TxSend(inq[Me]) # "Wait"
    /\ inq' = IF TxSend(inq[Me]) = "Ok" THEN [inq EXCEPT ![Me] = Append(@, io.wait)]
              ELSE inq
    /\ io' = [io EXCEPT !.wait = NoInput]
    /\ UNCHANGED <<session, engvars, gsvars, loopvars, rq, rx_render, tx_input, net, n_in, histvars>>

\* dc.on_message: an input arrives on the data channel
DC_Message(data) ==
    /\ net[Me] = "run" /\ io.dc = "Open" /\ io.dc_wait = NoInput
    /\ IsInput(data) => n_in[Me] < MaxSent
    /\ LET res == IF IsInput(data) THEN TxSend(inq[Me]) ELSE "Skip"
       IN /\ inq' = IF res = "Ok" THEN [inq EXCEPT ![Me] = Append(@, InputOf(data))]
                    ELSE inq
          /\ io' = [io EXCEPT !.rcv = <<"dc", data>>,
                              !.dc_wait = IF res = "Wait" THEN InputOf(data) ELSE @]
          /\ n_in' = IF IsInput(data) THEN [n_in EXCEPT ![Me] = @ + 1] ELSE n_in
    /\ UNCHANGED <<session, engvars, gsvars, loopvars, rq, rx_render, tx_input, net, histvars>>

\* the send an on_message future is suspended on completes
DC_InputSent ==
    /\ io.dc_wait # NoInput
    /\ TxSend(inq[Me]) # "Wait"
    /\ inq' = IF TxSend(inq[Me]) = "Ok" THEN [inq EXCEPT ![Me] = Append(@, io.dc_wait)]
              ELSE inq
    /\ io' = [io EXCEPT !.dc_wait = NoInput]
    /\ UNCHANGED <<session, engvars, gsvars, loopvars, rq, rx_render, tx_input, net, n_in, histvars>>

\* What the websocket loop does with a text message: nothing when it does
\* not deserialize to a SignalMessage or is a WELCOME; OFFER and ANSWER pass
\* their SDP to RTCSessionDescription::offer / answer and unwrap the result,
\* which is Err for an SDP that cannot be parsed; a CANDIDATE is added, errors
\* ignored; an OFFER that was applied is answered
OnText(text) ==
    CASE text \in {"OFFER_bad_sdp", "ANSWER_bad_sdp"} -> "panic"
      [] text = "OFFER" -> "answer"
      [] OTHER -> "nothing"

\* websocket loop, arm 1, Message::Text: signaling. The ANSWER is sent when
\* the three calls on the peer connection succeeded (answered); an error of
\* that send is ignored.
M_Text(text, answered) ==
    /\ net[Me] = "run" /\ io.wait = NoInput
    /\ io' = [io EXCEPT !.rcv = <<"text", text>>,
                        !.first = IF OnText(text) = "answer" /\ answered
                                  THEN WsFirst(@, "ANSWER") ELSE @,
                        !.ws_frame = IF OnText(text) = "panic" THEN <<>> ELSE @]
    /\ net' = [net EXCEPT ![Me] = IF OnText(text) = "panic" THEN "panic" ELSE "run"]
    /\ UNCHANGED <<session, engvars, gsvars, loopvars, chanvars, n_in, histvars>>

\* after a panic of the connection's task its locals are dropped, the input
\* sender of the websocket loop among them; the coordinator task, detached,
\* keeps the render receiver
M_PanicDropInput ==
    /\ net[Me] = "panic" /\ tx_input[Me]
    /\ io.dc_wait = NoInput
    /\ tx_input' = [tx_input EXCEPT ![Me] = FALSE]
    /\ UNCHANGED <<engvars, gsvars, loopvars, rq, rx_render, inq, netvars, histvars>>

\* debug_handler: tx.send((body, reply_tx)).await puts the request in the
\* debug channel, or is suspended while the channel is full
D_Request ==
    /\ pc = "top"
    /\ IF rx_debug < DebugCap
       THEN rx_debug' = rx_debug + 1 /\ io' = io
       ELSE /\ io.dbg_wait < MaxDebugWait
            /\ io' = [io EXCEPT !.dbg_wait = @ + 1]
            /\ rx_debug' = rx_debug
    /\ UNCHANGED <<session, engvars, gsvars, pc, idx, clients, new_clients, notify, chanvars,
                   net, n_in, histvars>>

\* a suspended debug_handler gets the slot the frame loop freed
D_Enqueued ==
    /\ io.dbg_wait > 0 /\ rx_debug < DebugCap
    /\ rx_debug' = rx_debug + 1
    /\ io' = [io EXCEPT !.dbg_wait = @ - 1]
    /\ UNCHANGED <<session, engvars, gsvars, pc, idx, clients, new_clients, notify, chanvars,
                   net, n_in, histvars>>

\* the inputs of the client
InputNext ==
    \/ DC_Open
    \/ \E data \in Msgs : M_Binary(data) \/ DC_Message(data)
    \/ M_InputSent
    \/ DC_InputSent

\* the drain of the frame loop handing an input to the script
InputLoopNext ==
    \E ok \in BOOLEAN : \E calls \in ScriptCalls("handle_input", MaxLoopEmit) :
        L_InputOk(calls, ok)

\* One connection, from the upgrade to the cleanup, with the inputs of its
\* client on both channels
SpecIn == Init /\ [][BareLoopNext \/ InputLoopNext \/ HandshakeNext \/ InputNext]_vars

\* the text messages of the client
SignalNext ==
    \/ \E text \in Texts, answered \in BOOLEAN : M_Text(text, answered)
    \/ M_PanicDropInput

\* One connection, from the upgrade to the cleanup, with the text messages
\* of its client
SpecSignal == Init /\ [][BareLoopNext \/ HandshakeNext \/ SignalNext]_vars

\* the debug endpoint
DebugNext ==
    \/ D_Request
    \/ D_Enqueued

\* the frame loop serving a debug request
DebugLoopNext ==
    \E ok \in BOOLEAN : \E calls \in ScriptCalls("eval", MaxLoopEmit) :
        L_DebugEval(calls, ok)

\* The frame loop with debugging enabled, the debug endpoint, and one
\* connection
SpecDebug == Init /\ [][BareLoopNext \/ DebugLoopNext \/ HandshakeNext \/ DebugNext]_vars

\* ============================================================ spatial_db.rs
\*
\* Coordinates, radii and cell sizes are whole numbers, on which the f32
\* arithmetic of the source is exact; (v / cell_size).floor() is \div.

MaxCoord == 1
MaxRadius == 1
MaxEntities == 2
MaxSegments == 1
MaxCell == 2

Coords == (0 - MaxCoord)..MaxCoord
Radii == 0..MaxRadius
CellSizes == 1..MaxCell
Ids == 1..(MaxEntities + 1)
Tags == {"wall", "mob"}
None == "none"

Insert(m, k, v) == [i \in DOMAIN m \cup {k} |-> IF i = k THEN v ELSE m[i]]
Without(m, k) == [i \in DOMAIN m \ {k} |-> m[i]]
Min2(a, b) == IF a < b THEN a ELSE b
Max2(a, b) == IF a > b THEN a ELSE b

\* DefaultHasher over the tag's bytes: a fixed function of the string
calculate_hash(tag) == CASE tag = "wall" -> 11 [] tag = "mob" -> 23 [] OTHER -> 37

Circle(id, x, y, radius, tag) ==
    [id |-> id, x |-> x, y |-> y, tag_hash |-> calculate_hash(tag),
     shape |-> [kind |-> "Circle", radius |-> radius]]

Segment(id, x1, y1, x2, y2, tag) ==
    [id |-> id, x |-> x1, y |-> y1, tag_hash |-> calculate_hash(tag),
     shape |-> [kind |-> "Segment", x2 |-> x2, y2 |-> y2]]

get_cell(d, x, y) == <<x \div d.cell_size, y \div d.cell_size>>

\* the bounding box of an entity: <<min_x, min_y, max_x, max_y>>
Aabb(e) ==
    IF e.shape.kind = "Circle"
    THEN <<e.x - e.shape.radius, e.y - e.shape.radius,
           e.x + e.shape.radius, e.y + e.shape.radius>>
    ELSE <<Min2(e.x, e.shape.x2), Min2(e.y, e.shape.y2),
           Max2(e.x, e.shape.x2), Max2(e.y, e.shape.y2)>>

get_cells_for_entity(d, e) ==
    LET b == Aabb(e)
        min_cell == get_cell(d, b[1], b[2])
        max_cell == get_cell(d, b[3], b[4])
    IN {<<cx, cy>> : cx \in min_cell[1]..max_cell[1], cy \in min_cell[2]..max_cell[2]}

add_to_grid(d, id, e) ==
    LET cells == get_cells_for_entity(d, e)
    IN [d EXCEPT !.grid =
           [c \in DOMAIN d.grid \cup cells |->
               LET old == IF c \in DOMAIN d.grid THEN d.grid[c] ELSE <<>>
               IN IF c \in cells THEN Append(old, id) ELSE old]]

\* Vec::swap_remove: the last element takes the place of the removed one
swap_remove(s, pos) ==
    [i \in 1..(Len(s) - 1) |-> IF i = pos THEN s[Len(s)] ELSE s[i]]

position(s, id) ==
    IF \E i \in 1..Len(s) : s[i] = id
    THEN CHOOSE i \in 1..Len(s) : s[i] = id /\ \A j \in 1..(i - 1) : s[j] # id
    ELSE 0

\* A cell whose list became empty is read by every caller exactly as a cell
\* that has no list (grid.get(..) yields nothing to iterate), so the grid
\* keeps the non-empty lists only.
remove_from_grid(d, id, e) ==
    LET cells == get_cells_for_entity(d, e)
        gone(c) == c \in cells /\ position(d.grid[c], id) # 0
        left == {c \in DOMAIN d.grid : ~(gone(c) /\ Len(d.grid[c]) = 1)}
    IN [d EXCEPT !.grid =
           [c \in left |->
               IF gone(c)
               THEN swap_remove(d.grid[c], position(d.grid[c], id))
               ELSE d.grid[c]]]

\* both constructors return the id they allocated, d.next_id
add_entity(d, e) ==
    LET d1 == [d EXCEPT !.next_id = @ + 1]
        d2 == add_to_grid(d1, e.id, e)
    IN [d2 EXCEPT !.entities = Insert(@, e.id, e)]

add_circle(d, x, y, radius, tag) == add_entity(d, Circle(d.next_id, x, y, radius, tag))

add_segment(d, x1, y1, x2, y2, tag) ==
    add_entity(d, Segment(d.next_id, x1, y1, x2, y2, tag))

\* an Option: no value, or one
Absent == {}
Some(v) == {v}

get_position(d, id) ==
    IF id \in DOMAIN d.entities
    THEN Some(<<d.entities[id].x, d.entities[id].y>>)
    ELSE Absent

\* (x, y, kind)
get_entity_info(d, id) ==
    IF id \in DOMAIN d.entities
    THEN Some(<<d.entities[id].x, d.entities[id].y, d.entities[id].shape>>)
    ELSE Absent

\* an update_position that leaves the old cells as they are
update_position_keep(d, id, x, y) ==
    IF id \in DOMAIN d.entities
    THEN LET e == d.entities[id]
             moved == [e EXCEPT !.x = x, !.y = y]
             d2 == [d EXCEPT !.entities[id] = moved]
         IN add_to_grid(d2, id, moved)
    ELSE d

update_position(d, id, x, y) ==
    IF id \in DOMAIN d.entities
    THEN LET e == d.entities[id]
             d1 == remove_from_grid(d, id, e)
             dx == x - e.x
             dy == y - e.y
             moved == IF e.shape.kind = "Segment"
                      THEN [e EXCEPT !.shape.x2 = @ + dx, !.shape.y2 = @ + dy,
                                     !.x = x, !.y = y]
                      ELSE [e EXCEPT !.x = x, !.y = y]
             d2 == [d1 EXCEPT !.entities[id] = moved]
         IN add_to_grid(d2, id, moved)
    ELSE d

remove(d, id) ==
    IF id \in DOMAIN d.entities
    THEN LET d1 == remove_from_grid(d, id, d.entities[id])
         IN [d1 EXCEPT !.entities = Without(@, id)]
    ELSE d

\* ---- the index under any sequence of its mutating calls

otherengine == <<phys, graph, got>>

S_AddCircle ==
    /\ db.next_id <= MaxEntities
    /\ \E x \in Coords, y \in Coords, radius \in Radii, tag \in Tags :
          db' = add_circle(db, x, y, radius, tag)
    /\ UNCHANGED <<gsvars, loopvars, chanvars, netvars, histvars, otherengine>>

S_AddSegment ==
    /\ db.next_id <= MaxEntities
    /\ Cardinality({id \in DOMAIN db.entities :
                        db.entities[id].shape.kind = "Segment"}) < MaxSegments
    /\ \E x1 \in Coords, y1 \in Coords, x2 \in Coords, y2 \in Coords, tag \in Tags :
          db' = add_segment(db, x1, y1, x2, y2, tag)
    /\ UNCHANGED <<gsvars, loopvars, chanvars, netvars, histvars, otherengine>>

S_UpdatePosition ==
    /\ \E id \in Ids, x \in Coords, y \in Coords :
          db' = update_position(db, id, x, y)
    /\ UNCHANGED <<gsvars, loopvars, chanvars, netvars, histvars, otherengine>>

S_Remove ==
    /\ \E id \in Ids : db' = remove(db, id)
    /\ UNCHANGED <<gsvars, loopvars, chanvars, netvars, histvars, otherengine>>

SpatialNext == S_AddCircle \/ S_AddSegment \/ S_UpdatePosition \/ S_Remove

\* new_spatial_db(cell_size), the rest of the program idle
SpatialInit ==
    /\ LibraryHost
    /\ phys = PhysicsWorld_new
    /\ graph = Graph_new
    /\ got = NoRes
    /\ \E cell_size \in CellSizes : db = SpatialDb_new(cell_size)

SpecSpatial == SpatialInit /\ [][SpatialNext]_vars

\* ---- queries

MaxRange == 1
Ranges == 0..MaxRange
TagFilters == {None} \cup Tags

\* tag_filter.map(calculate_hash) against the entity's tag_hash
TagMatches(e, tag_filter) ==
    tag_filter = None \/ e.tag_hash = calculate_hash(tag_filter)

\* the ids listed in the cells from min_c to max_c that have a list and an
\* entity; the HashSet `result` holds each id once
Candidates(d, min_c, max_c) ==
    {id \in DOMAIN d.entities :
        \E c \in DOMAIN d.grid :
            /\ min_c[1] <= c[1] /\ c[1] <= max_c[1]
            /\ min_c[2] <= c[2] /\ c[2] <= max_c[2]
            /\ position(d.grid[c], id) # 0}

\* a query_rect whose box test leaves out the edges of the rectangle
query_rect_open(d, min_x, min_y, max_x, max_y, tag_filter) ==
    {id \in Candidates(d, get_cell(d, min_x, min_y), get_cell(d, max_x, max_y)) :
        LET e == d.entities[id]
            b == Aabb(e)
        IN /\ TagMatches(e, tag_filter)
           /\ b[3] > min_x /\ b[1] < max_x /\ b[4] > min_y /\ b[2] < max_y}

query_rect(d, min_x, min_y, max_x, max_y, tag_filter) ==
    {id \in Candidates(d, get_cell(d, min_x, min_y), get_cell(d, max_x, max_y)) :
        LET e == d.entities[id]
            b == Aabb(e)
        IN /\ TagMatches(e, tag_filter)
           /\ b[3] >= min_x /\ b[1] <= max_x /\ b[4] >= min_y /\ b[2] <= max_y}

\* t = dot / seg_len2 clamped to [0, 1], as the fraction <<num, den>>; 0/0 is
\* NaN, which f32::max(0.0) turns into 0
ClampedT(dot, seg_len2) ==
    IF seg_len2 = 0 \/ dot <= 0 THEN <<0, 1>>
    ELSE IF dot >= seg_len2 THEN <<1, 1>>
    ELSE <<dot, seg_len2>>

\* dist2 <= range * range for the point of the segment closest to (x, y):
\* an end of the segment when t is 0 or 1, and otherwise the point at
\* t = dot / seg_len2, for which dist2 = |w|^2 - dot^2 / seg_len2 with
\* w = (x - e.x, y - e.y); both sides multiplied by seg_len2
SegmentInRange(e, x, y, range) ==
    LET vx == e.shape.x2 - e.x
        vy == e.shape.y2 - e.y
        wx == x - e.x
        wy == y - e.y
        t == ClampedT(wx * vx + wy * vy, vx * vx + vy * vy)
        ox == wx - t[1] * vx
        oy == wy - t[1] * vy
    IN IF t[2] = 1
       THEN ox * ox + oy * oy <= range * range
       ELSE (wx * wx + wy * wy) * t[2] - t[1] * t[1] <= range * range * t[2]

CircleInRange(e, x, y, range) ==
    LET dx == x - e.x
        dy == y - e.y
        r_sum == range + e.shape.radius
    IN dx * dx + dy * dy <= r_sum * r_sum

query_range(d, x, y, range, tag_filter) ==
    {id \in Candidates(d, get_cell(d, x - range, y - range),
                          get_cell(d, x + range, y + range)) :
        LET e == d.entities[id]
        IN /\ TagMatches(e, tag_filter)
           /\ IF e.shape.kind = "Circle"
              THEN CircleInRange(e, x, y, range)
              ELSE SegmentInRange(e, x, y, range)}

\* result.into_iter().collect(): the set in some order
Orders(ids) ==
    {s \in UNION {[1..n -> ids] : n \in {Cardinality(ids)}} :
        \A i, j \in DOMAIN s : i # j => s[i] # s[j]}

\* ---- a circle and a segment placed anywhere, then one query

Q_Rect ==
    /\ got = NoRes
    /\ \E min_x \in Coords, min_y \in Coords, max_x \in Coords, max_y \in Coords,
          tag_filter \in TagFilters :
          /\ min_x <= max_x /\ min_y <= max_y
          /\ \E ids \in Orders(query_rect(db, min_x, min_y, max_x, max_y, tag_filter)) :
                got' = [call |-> "query_rect", tag_filter |-> tag_filter, ids |-> ids,
                        args |-> <<min_x, min_y, max_x, max_y>>]
    /\ UNCHANGED <<gsvars, loopvars, chanvars, netvars, histvars, db, phys, graph>>

Q_Range ==
    /\ got = NoRes
    /\ \E x \in Coords, y \in Coords, range \in Ranges, tag_filter \in TagFilters :
          \E ids \in Orders(query_range(db, x, y, range, tag_filter)) :
              got' = [call |-> "query_range", tag_filter |-> tag_filter, ids |-> ids,
                      args |-> <<x, y, range>>]
    /\ UNCHANGED <<gsvars, loopvars, chanvars, netvars, histvars, db, phys, graph>>

QueryNext == Q_Rect \/ Q_Range

Placed ==
    /\ LibraryHost
    /\ phys = PhysicsWorld_new
    /\ graph = Graph_new
    /\ got = NoRes
    /\ \E cell_size \in CellSizes, x \in Coords, y \in Coords, radius \in Radii,
          x1 \in Coords, y1 \in Coords, x2 \in Coords, y2 \in Coords,
          t1 \in Tags, t2 \in Tags :
          db = add_segment(add_circle(SpatialDb_new(cell_size), x, y, radius, t1),
                           x1, y1, x2, y2, t2)

SpecQuery == Placed /\ [][QueryNext]_vars

\* ---- cast_ray
\*
\* The ray is cast at 0 degrees, the angle whose direction (cos, sin) = (1, 0)
\* is exact in f32, from whole-number origins; a hit's t is the fraction
\* <<num, den>> with den > 0.

MaxDist == 3
Dists == 1..MaxDist
Angles == {0}

Cos(angle_deg) == CASE angle_deg = 0 -> 1
Sin(angle_deg) == CASE angle_deg = 0 -> 0

Frac(num, den) == IF den < 0 THEN <<0 - num, 0 - den>> ELSE <<num, den>>
Less(f, g) == f[1] * g[2] < g[1] * f[2]
Leq(f, g) == f[1] * g[2] <= g[1] * f[2]

IsSquare(n) == \E k \in 0..n : k * k = n
Sqrt(n) == CHOOSE k \in 0..n : k * k = n

\* (max_dist / cell_size).ceil()
Steps(max_dist, cell_size) == (max_dist + cell_size - 1) \div cell_size

\* the ids listed in the 3 x 3 cells around each sampled point of the ray
RayCandidates(d, x1, y1, dx, dy, max_dist) ==
    {id \in DOMAIN d.entities :
        \E i \in 0..Steps(max_dist, d.cell_size), ox \in -1..1, oy \in -1..1 :
            LET cell == get_cell(d, x1 + dx * d.cell_size * i, y1 + dy * d.cell_size * i)
                c == <<cell[1] + ox, cell[2] + oy>>
            IN c \in DOMAIN d.grid /\ position(d.grid[c], id) # 0}

\* the hits of the ray on a circle: t = (-b - sqrt(discriminant)) / 2a, kept
\* when 0 <= t <= max_dist, reported as t / max_dist
CircleHits(e, x1, y1, dx, dy, max_dist) ==
    LET fx == x1 - e.x
        fy == y1 - e.y
        a == dx * dx + dy * dy
        b == 2 * (fx * dx + fy * dy)
        c == (fx * fx + fy * fy) - e.shape.radius * e.shape.radius
        discriminant == b * b - 4 * a * c
    IN IF discriminant >= 0
       THEN LET t == Frac((0 - b) - Sqrt(discriminant), 2 * a)
            IN IF Leq(<<0, 1>>, t) /\ Leq(t, <<max_dist, 1>>)
               THEN {[id |-> e.id, t |-> Frac(t[1], t[2] * max_dist)]}
               ELSE {}
       ELSE {}

\* line-line intersection with both parameters in [0, 1]
SegmentHits(e, x1, y1, x2, y2) ==
    LET wx2 == e.shape.x2
        wy2 == e.shape.y2
        den == (x1 - x2) * (e.y - wy2) - (y1 - y2) * (e.x - wx2)
        t == Frac((x1 - e.x) * (e.y - wy2) - (y1 - e.y) * (e.x - wx2), den)
        u == Frac(0 - ((x1 - x2) * (y1 - e.y) - (y1 - y2) * (x1 - e.x)), den)
    IN IF den # 0 /\ Leq(<<0, 1>>, t) /\ Leq(t, <<1, 1>>)
                  /\ Leq(<<0, 1>>, u) /\ Leq(u, <<1, 1>>)
       THEN {[id |-> e.id, t |-> t]}
       ELSE {}

RayHits(d, x1, y1, angle_deg, max_dist, tag_filter) ==
    LET dx == Cos(angle_deg)
        dy == Sin(angle_deg)
        x2 == x1 + dx * max_dist
        y2 == y1 + dy * max_dist
    IN UNION {IF ~TagMatches(d.entities[id], tag_filter) THEN {}
              ELSE IF d.entities[id].shape.kind = "Circle"
              THEN CircleHits(d.entities[id], x1, y1, dx, dy, max_dist)
              ELSE SegmentHits(d.entities[id], x1, y1, x2, y2) :
              id \in RayCandidates(d, x1, y1, dx, dy, max_dist)}

NoHit == [id |-> 0]

\* the values cast_ray may return: `closest` is replaced on a strictly
\* smaller t only, and the candidates are visited in the HashSet's order, so
\* any hit that no other hit is nearer than; (id, t) of (id, t, x, y)
cast_ray(d, x1, y1, angle_deg, max_dist, tag_filter) ==
    LET hits == RayHits(d, x1, y1, angle_deg, max_dist, tag_filter)
    IN IF hits = {} THEN {NoHit}
       ELSE {h \in hits : \A o \in hits : ~Less(o.t, h.t)}

\* the discriminant of every circle is a perfect square: its root is exact
ExactRay(d, x1, y1, angle_deg) ==
    \A id \in DOMAIN d.entities :
        d.entities[id].shape.kind = "Circle" =>
            LET e == d.entities[id]
                dx == Cos(angle_deg)
                dy == Sin(angle_deg)
                b == 2 * ((x1 - e.x) * dx + (y1 - e.y) * dy)
                c == (x1 - e.x) * (x1 - e.x) + (y1 - e.y) * (y1 - e.y)
                         - e.shape.radius * e.shape.radius
                discriminant == b * b - 4 * (dx * dx + dy * dy) * c
            IN discriminant >= 0 => IsSquare(discriminant)

R_Cast ==
    /\ got = NoRes
    /\ \E x1 \in Coords, y1 \in Coords, angle_deg \in Angles, max_dist \in Dists,
          tag_filter \in TagFilters :
          /\ ExactRay(db, x1, y1, angle_deg)
          /\ \E hit \in cast_ray(db, x1, y1, angle_deg, max_dist, tag_filter) :
                got' = [call |-> "cast_ray", tag_filter |-> tag_filter, hit |-> hit,
                        args |-> <<x1, y1, angle_deg, max_dist>>]
    /\ UNCHANGED <<gsvars, loopvars, chanvars, netvars, histvars, db, phys, graph>>

SpecRay == Placed /\ [][R_Cast]_vars

\* ================================================================ physics.rs
\*
\* Lengths, velocities, restitution and drag are in tenths (H to the unit),
\* masses in units, dt in whole seconds; inv_mass is the fraction
\* <<num, den>>. Quotients are rounded down to a tenth where f32 rounds to
\* its own precision. On tenths the tests dist_sq > 0.0001 and dist > 0.0001
\* are dist_sq > 0 and dist > 0.

H == 10
SKIN == 50 * H
\* slop = 0.01 = 1 / SLOP_DEN, a tenth being FINE of these
SLOP_DEN == 100
FINE == SLOP_DEN \div H

Isqrt(n) == CHOOSE k \in 0..n : k * k <= n /\ n < (k + 1) * (k + 1)

\* the greatest finite mass of the model; a mass above it is f32's infinity
\* (math.huge in a script), and 1.0 / infinity is 0
MaxMass == 2
Infinity == MaxMass + 1

RigidBody_new(mass, restitution, drag) ==
    [vx |-> 0, vy |-> 0, mass |-> mass,
     inv_mass |-> IF mass <= 0 \/ mass >= Infinity THEN <<0, 1>> ELSE <<1, mass>>,
     restitution |-> restitution, drag |-> drag, is_static |-> mass <= 0]

add_body(p, id, mass, restitution, drag) ==
    [p EXCEPT !.bodies = Insert(@, id, RigidBody_new(mass, restitution, drag))]

\* a set_velocity that makes the body it does not find
set_velocity_make(p, id, vx, vy) ==
    [p EXCEPT !.bodies = Insert(@, id, [RigidBody_new(1, 0, 0) EXCEPT !.vx = vx, !.vy = vy])]

set_velocity(p, id, vx, vy) ==
    IF id \in DOMAIN p.bodies
    THEN [p EXCEPT !.bodies[id].vx = vx, !.bodies[id].vy = vy]
    ELSE p

get_velocity(p, id) ==
    IF id \in DOMAIN p.bodies THEN Some(<<p.bodies[id].vx, p.bodies[id].vy>>) ELSE Absent

set_gravity(p, x, y) == [p EXCEPT !.gravity_x = x, !.gravity_y = y]

\* step, 1: gravity and drag on a body that is not static
Integrated(b, gravity_x, gravity_y, dt) ==
    IF b.is_static THEN b
    ELSE LET vx == b.vx + gravity_x * dt
             vy == b.vy + gravity_y * dt
             k == H - b.drag * dt
         IN IF b.drag > 0
            THEN [b EXCEPT !.vx = (vx * k) \div H, !.vy = (vy * k) \div H]
            ELSE [b EXCEPT !.vx = vx, !.vy = vy]

\* ... and the new positions of those that have an entity, in the map's order
RECURSIVE ApplyUpdates(_, _, _, _)
ApplyUpdates(d, bodies, order, dt) ==
    IF order = <<>> THEN d
    ELSE LET id == Head(order)
             b == bodies[id]
             d1 == IF ~b.is_static /\ get_position(d, id) # Absent
                   THEN update_position(d, id, d.entities[id].x + b.vx * dt,
                                               d.entities[id].y + b.vy * dt)
                   ELSE d
         IN ApplyUpdates(d1, bodies, Tail(order), dt)

\* step, 2: Some([nx, ny, nd, pen]) when the circle A touches b, the normal
\* being (nx / nd, ny / nd)
Collision(pos_a, radius_a, b) ==
    IF b[3].kind = "Circle"
    THEN LET dx == b[1] - pos_a[1]
             dy == b[2] - pos_a[2]
             dist_sq == dx * dx + dy * dy
             r_sum == radius_a + b[3].radius
             dist == Isqrt(dist_sq)
         IN IF dist_sq < r_sum * r_sum /\ dist_sq > 0
            THEN Some([nx |-> dx, ny |-> dy, nd |-> dist, pen |-> r_sum - dist])
            ELSE Absent
    ELSE LET dx_seg == b[3].x2 - b[1]
             dy_seg == b[3].y2 - b[2]
             len_sq == dx_seg * dx_seg + dy_seg * dy_seg
             t == IF len_sq > 0
                  THEN ClampedT((pos_a[1] - b[1]) * dx_seg + (pos_a[2] - b[2]) * dy_seg, len_sq)
                  ELSE <<0, 1>>
             closest_x == b[1] + (t[1] * dx_seg) \div t[2]
             closest_y == b[2] + (t[1] * dy_seg) \div t[2]
             dx == pos_a[1] - closest_x
             dy == pos_a[2] - closest_y
             dist_sq == dx * dx + dy * dy
             dist == Isqrt(dist_sq)
         IN IF dist_sq < radius_a * radius_a
            THEN IF dist > 0
                 THEN Some([nx |-> 0 - dx, ny |-> 0 - dy, nd |-> dist, pen |-> radius_a - dist])
                 ELSE Some([nx |-> 0, ny |-> 0 - 1, nd |-> 1, pen |-> radius_a - dist])
            ELSE Absent

\* the pair as the loop met it
Pair_met(id_a, id_b) == <<id_a, id_b>>

Pair(id_a, id_b) == IF id_a < id_b THEN <<id_a, id_b>> ELSE <<id_b, id_a>>

\* a resolution that also pushes and kicks a B of infinite mass
Resolve_all(w, id_a, pos_a, body_a, id_b, col) ==
    LET has_b == id_b \in DOMAIN w.phys.bodies
        corr == Max2(col.pen * FINE - 1, 0)
        push(n) == (n * corr * 4) \div (col.nd * 5 * 2 * FINE)
        d1 == update_position(w.db, id_a, pos_a[1] - push(col.nx), pos_a[2] - push(col.ny))
        d2 == update_position(d1, id_b, d1.entities[id_b].x + push(col.nx) + 1,
                                        d1.entities[id_b].y + push(col.ny))
    IN [db |-> d2,
        phys |-> [w.phys EXCEPT
                     !.collisions = @ \cup {Pair(id_a, id_b)},
                     !.bodies = [id \in DOMAIN @ |->
                                    IF id = id_b THEN [@[id] EXCEPT !.vx = @ + 1] ELSE @[id]]]]

\* record the pair, then push the two apart and exchange an impulse
Resolve(w, id_a, pos_a, body_a, id_b, col) ==
    LET has_b == id_b \in DOMAIN w.phys.bodies
        inv_mass_b == IF has_b THEN w.phys.bodies[id_b].inv_mass ELSE <<0, 1>>
        vel_bx == IF has_b THEN w.phys.bodies[id_b].vx ELSE 0
        vel_by == IF has_b THEN w.phys.bodies[id_b].vy ELSE 0
        restitution_b == IF has_b THEN w.phys.bodies[id_b].restitution ELSE H
        \* inv_mass_a, inv_mass_b and their sum over a common denominator
        wa == body_a.inv_mass[1] * inv_mass_b[2]
        wb == inv_mass_b[1] * body_a.inv_mass[2]
        total == wa + wb
        \* penetration - slop, in 1 / SLOP_DEN
        corr == Max2(col.pen * FINE - 1, 0)
        \* c * inv_mass, c = n * correction_mag, percent = 0.8 = 4 / 5
        push(n, share) == (n * corr * 4 * share) \div (col.nd * 5 * total * FINE)
        d1 == update_position(w.db, id_a, pos_a[1] - push(col.nx, wa),
                                          pos_a[2] - push(col.ny, wa))
        d2 == IF inv_mass_b[1] > 0 /\ get_position(d1, id_b) # Absent
              THEN update_position(d1, id_b, d1.entities[id_b].x + push(col.nx, wb),
                                             d1.entities[id_b].y + push(col.ny, wb))
              ELSE d1
        ba == w.phys.bodies[id_a]
        \* vel_along_normal * nd
        vn == (vel_bx - ba.vx) * col.nx + (vel_by - ba.vy) * col.ny
        e == Min2(body_a.restitution, restitution_b)
        \* impulse * inv_mass, impulse = j * n, j = -(1 + e) * vel_along_normal / total
        kick(n, share) == ((0 - (H + e)) * vn * n * share) \div (H * col.nd * col.nd * total)
        recorded == [w.phys EXCEPT !.collisions = @ \cup {Pair(id_a, id_b)}]
    IN IF total <= 0 THEN [db |-> w.db, phys |-> recorded]
       ELSE IF vn > 0 THEN [db |-> d2, phys |-> recorded]
       ELSE [db |-> d2,
             phys |-> [recorded EXCEPT !.bodies =
                 [id \in DOMAIN @ |->
                     IF id = id_a
                     THEN [@[id] EXCEPT !.vx = @ - kick(col.nx, wa),
                                        !.vy = @ - kick(col.ny, wa)]
                     ELSE IF id = id_b /\ inv_mass_b[1] > 0
                     THEN [@[id] EXCEPT !.vx = @ + kick(col.nx, wb),
                                        !.vy = @ + kick(col.ny, wb)]
                     ELSE @[id]]]]

RECURSIVE CollideWith(_, _, _, _, _, _)
CollideWith(w, id_a, pos_a, radius_a, body_a, nearby) ==
    IF nearby = <<>> THEN w
    ELSE LET id_b == Head(nearby)
             info_b == get_entity_info(w.db, id_b)
             col == Collision(pos_a, radius_a, CHOOSE i \in info_b : TRUE)
             w1 == IF id_a = id_b \/ info_b = Absent THEN w
                   ELSE IF col = Absent THEN w
                   ELSE Resolve(w, id_a, pos_a, body_a, id_b, CHOOSE c \in col : TRUE)
         IN CollideWith(w1, id_a, pos_a, radius_a, body_a, Tail(nearby))

\* the collisions of the body id_a, `nearby` being in the HashSet's order; a
\* body with no entity, or whose entity is a segment, is passed over
CollideOne(w, id_a) ==
    LET info == get_entity_info(w.db, id_a)
        a == CHOOSE i \in info : TRUE
    IN IF info = Absent THEN {w}
       ELSE IF a[3].kind # "Circle" THEN {w}
       ELSE {CollideWith(w, id_a, <<a[1], a[2]>>, a[3].radius, w.phys.bodies[id_a], nearby) :
                nearby \in Orders(query_range(w.db, a[1], a[2], a[3].radius + SKIN, None))}

RECURSIVE CollideAll(_, _)
CollideAll(w, dynamic_ids) ==
    IF dynamic_ids = <<>> THEN {w}
    ELSE UNION {CollideAll(w1, Tail(dynamic_ids)) : w1 \in CollideOne(w, Head(dynamic_ids))}

\* PhysicsWorld::step: the worlds it may leave, one for each order in which
\* the maps and sets hand out their elements
step(w, dt) ==
    UNION {LET bodies == [id \in DOMAIN w.phys.bodies |->
                             Integrated(w.phys.bodies[id], w.phys.gravity_x,
                                        w.phys.gravity_y, dt)]
               dynamic(id) == ~bodies[id].is_static
           IN CollideAll([db |-> ApplyUpdates(w.db, bodies, order, dt),
                          phys |-> [w.phys EXCEPT !.bodies = bodies]],
                         SelectSeq(order, dynamic)) :
           order \in Orders(DOMAIN w.phys.bodies)}

\* ---- a script driving a physics world

MaxVel == 5
MaxSteps == 2
MaxBodies == 2

Masses == 0..MaxMass
Vels == {0 - MaxVel, MaxVel}
\* (restitution, drag)
Materials == {<<0, 0>>, <<H, 5>>}
BodyIds == 1..MaxBodies

P_AddBody ==
    /\ \E id \in BodyIds, mass \in Masses, m \in Materials :
          /\ id \notin DOMAIN phys.bodies
          /\ phys' = add_body(phys, id, mass, m[1], m[2])
    /\ got' = NoRes
    /\ UNCHANGED <<gsvars, loopvars, chanvars, netvars, histvars, db, graph>>

P_SetVelocity ==
    /\ phys.steps < MaxSteps
    /\ \E id \in BodyIds, vx \in Vels : phys' = set_velocity(phys, id, vx, 0)
    /\ got' = NoRes
    /\ UNCHANGED <<gsvars, loopvars, chanvars, netvars, histvars, db, graph>>

P_Step ==
    /\ phys.steps < MaxSteps
    /\ \E w \in step([db |-> db, phys |-> phys], 1) :
          /\ db' = w.db
          /\ phys' = [w.phys EXCEPT !.steps = @ + 1]
    /\ got' = NoRes
    /\ UNCHANGED <<gsvars, loopvars, chanvars, netvars, histvars, graph>>

\* self.collisions.drain().collect()
P_GetCollisionEvents ==
    /\ \E pairs \in Orders(phys.collisions) :
          got' = [call |-> "get_collision_events", pairs |-> pairs]
    /\ phys' = [phys EXCEPT !.collisions = {}]
    /\ UNCHANGED <<gsvars, loopvars, chanvars, netvars, histvars, db, graph>>

PhysicsNext == P_AddBody \/ P_SetVelocity \/ P_Step \/ P_GetCollisionEvents

\* two circles of radius 1 that overlap, the first also crossing a wall
Arena ==
    add_segment(add_circle(add_circle(SpatialDb_new(H), 0, 0, H, "mob"),
                           15, 0, H, "mob"),
                0 - 8, 0 - H, 0 - 8, H, "wall")

PhysicsInit ==
    /\ LibraryHost
    /\ db = Arena
    /\ phys = PhysicsWorld_new
    /\ graph = Graph_new
    /\ got = NoRes

SpecPhysics == PhysicsInit /\ [][PhysicsNext]_vars

\* ============================================================== graph_nav.rs
\*
\* Nodes are placed on the corners of a 3 x 4 rectangle, between which every
\* Euclidean distance (3, 4 or 5) is a whole number.

MaxNodes == 4
NodeIds == 1..MaxNodes
Corners == <<<<0, 0>>, <<3, 0>>, <<0, 4>>, <<3, 4>>>>

\* an add_node that replaces the node it finds
add_node_insert(g, id, x, y) ==
    [g EXCEPT !.nodes = Insert(@, id, [x |-> x, y |-> y, edges |-> <<>>])]

\* self.nodes.entry(id).or_insert(..)
add_node(g, id, x, y) ==
    IF id \in DOMAIN g.nodes THEN g
    ELSE [g EXCEPT !.nodes = Insert(@, id, [x |-> x, y |-> y, edges |-> <<>>])]

add_edge(g, from, to) ==
    IF from \in DOMAIN g.nodes /\ position(g.nodes[from].edges, to) = 0
    THEN [g EXCEPT !.nodes[from].edges = Append(@, to)]
    ELSE g

\* self.nodes[&a], self.nodes[&b]: indexing a HashMap panics on a missing key
Indexable(g, a, b) == a \in DOMAIN g.nodes /\ b \in DOMAIN g.nodes

heuristic(g, a, b) ==
    LET dx == g.nodes[a].x - g.nodes[b].x
        dy == g.nodes[a].y - g.nodes[b].y
    IN Sqrt(dx * dx + dy * dy)

dist(g, a, b) == heuristic(g, a, b)

\* a search: the open set as the set of its <<f_score, node_id>> (a node is
\* pushed again only with a smaller f_score), g_score, came_from, and whether
\* an index has panicked
Popped(open) == {s \in open : \A o \in open : s[1] <= o[1]}

RECURSIVE Relax(_, _, _, _, _)
Relax(g, current, goal, edges, st) ==
    IF edges = <<>> \/ st.panic THEN st
    ELSE LET neighbor == Head(edges)
             tentative_g == st.g_score[current] + dist(g, current, neighbor)
             st1 == IF ~Indexable(g, current, neighbor) THEN [st EXCEPT !.panic = TRUE]
                    ELSE IF neighbor \in DOMAIN st.g_score
                            /\ ~(tentative_g < st.g_score[neighbor])
                    THEN st
                    ELSE [st EXCEPT
                             !.came_from = Insert(@, neighbor, current),
                             !.g_score = Insert(@, neighbor, tentative_g),
                             !.open = @ \cup {<<tentative_g + heuristic(g, neighbor, goal),
                                                neighbor>>}]
         IN Relax(g, current, goal, Tail(edges), st1)

RECURSIVE Reconstruct(_, _)
Reconstruct(came_from, curr) ==
    IF curr \in DOMAIN came_from
    THEN Append(Reconstruct(came_from, came_from[curr]), curr)
    ELSE <<curr>>

Panicked == [panic |-> TRUE, path |-> Absent]
Found(path) == [panic |-> FALSE, path |-> path]

\* the outcomes of the loop, one for each way the heap may order equal f_scores
RECURSIVE Search(_, _, _)
Search(g, goal, st) ==
    IF st.panic THEN {Panicked}
    ELSE IF st.open = {} THEN {Found(Absent)}
    ELSE UNION {LET current == s[2]
                    rest == [st EXCEPT !.open = @ \ {s}]
                IN IF current = goal
                   THEN {Found(Some(Reconstruct(st.came_from, goal)))}
                   ELSE Search(g, goal, Relax(g, current, goal, g.nodes[current].edges, rest)) :
                s \in Popped(st.open)}

find_path(g, start, goal) ==
    IF start \notin DOMAIN g.nodes \/ goal \notin DOMAIN g.nodes
    THEN {Found(Absent)}
    ELSE Search(g, goal, [open |-> {<<heuristic(g, start, goal), start>>},
                          g_score |-> (start :> 0),
                          came_from |-> <<>>,
                          panic |-> FALSE])

\* ---- a graph built by add_node and add_edge in any order

MaxGraphNodes == 2

G_AddNode ==
    /\ \E id \in 1..MaxGraphNodes, c \in 1..2 :
          /\ graph' = add_node(graph, id, Corners[c][1], Corners[c][2])
          /\ got' = [call |-> "add_node", args |-> <<id, Corners[c][1], Corners[c][2]>>]
    /\ UNCHANGED <<gsvars, loopvars, chanvars, netvars, histvars, db, phys>>

G_AddEdge ==
    /\ \E from \in 1..(MaxGraphNodes + 1), to \in 1..(MaxGraphNodes + 1) :
          /\ graph' = add_edge(graph, from, to)
          /\ got' = [call |-> "add_edge", args |-> <<from, to>>]
    /\ UNCHANGED <<gsvars, loopvars, chanvars, netvars, histvars, db, phys>>

GraphNext == G_AddNode \/ G_AddEdge

GraphInit ==
    /\ LibraryHost
    /\ db = SpatialDb_new(1)
    /\ phys = PhysicsWorld_new
    /\ graph = Graph_new
    /\ got = NoRes

SpecGraph == GraphInit /\ [][GraphNext]_vars

\* ---- one find_path on a graph of up to MaxNodes nodes on the corners

\* the edges a script may add; the last node may be left out of the graph,
\* and an edge to it then points to an id that was never added
Arcs == {a \in NodeIds \X NodeIds : a[1] # a[2]}

RECURSIVE AddEdges(_, _, _)
AddEdges(g, arcs, chosen) ==
    IF arcs = <<>> THEN g
    ELSE AddEdges(IF Head(arcs) \in chosen
                  THEN add_edge(g, Head(arcs)[1], Head(arcs)[2]) ELSE g,
                  Tail(arcs), chosen)

RECURSIVE AddNodes(_, _)
AddNodes(g, ids) ==
    IF ids = <<>> THEN g
    ELSE AddNodes(add_node(g, Head(ids), Corners[Head(ids)][1], Corners[Head(ids)][2]),
                  Tail(ids))

\* every pair of ids, row by row: the order of the add_edge calls
ArcOrder ==
    [k \in 1..(MaxNodes * MaxNodes) |->
        <<((k - 1) \div MaxNodes) + 1, ((k - 1) % MaxNodes) + 1>>]

Built ==
    /\ LibraryHost
    /\ db = SpatialDb_new(1)
    /\ phys = PhysicsWorld_new
    /\ got = NoRes
    /\ \E n \in {MaxNodes - 1, MaxNodes}, chosen \in SUBSET Arcs :
          graph = AddEdges(AddNodes(Graph_new, [i \in 1..n |-> i]), ArcOrder, chosen)

F_FindPath ==
    /\ got = NoRes
    /\ \E start \in NodeIds, goal \in NodeIds :
          \E r \in find_path(graph, start, goal) :
              got' = [call |-> "find_path", args |-> <<start, goal>>,
                      panic |-> r.panic, path |-> r.path]
    /\ UNCHANGED <<gsvars, loopvars, chanvars, netvars, histvars, db, phys, graph>>

SpecPath == Built /\ [][F_FindPath]_vars

\* ---- one call on a world in which some ids are not there

MaxId == 4

\* 1 and 2 are the circles of the arena and have a body, 3 is its wall, 4
\* was never added
AnyIds == 1..MaxId

A_SetVelocity ==
    /\ got = NoRes
    /\ \E id \in AnyIds, vx \in Vels :
          /\ phys' = set_velocity(phys, id, vx, 0)
          /\ got' = [call |-> "set_velocity", args |-> <<id, vx, 0>>]
    /\ UNCHANGED <<gsvars, loopvars, chanvars, netvars, histvars, db, graph>>

A_UpdatePosition ==
    /\ got = NoRes
    /\ \E id \in AnyIds, x \in {0, 15} :
          /\ db' = update_position(db, id, x, 0)
          /\ got' = [call |-> "update_position", args |-> <<id, x, 0>>]
    /\ UNCHANGED <<gsvars, loopvars, chanvars, netvars, histvars, phys, graph>>

A_Remove ==
    /\ got = NoRes
    /\ \E id \in AnyIds :
          /\ db' = remove(db, id)
          /\ got' = [call |-> "remove", args |-> <<id>>]
    /\ UNCHANGED <<gsvars, loopvars, chanvars, netvars, histvars, phys, graph>>

A_Get ==
    /\ got = NoRes
    /\ \E id \in AnyIds :
          got' = [call |-> "get", args |-> <<id>>,
                  position |-> get_position(db, id),
                  info |-> get_entity_info(db, id),
                  velocity |-> get_velocity(phys, id)]
    /\ UNCHANGED <<gsvars, loopvars, chanvars, netvars, histvars, db, phys, graph>>

A_Step ==
    /\ got = NoRes
    /\ \E w \in step([db |-> db, phys |-> phys], 1) :
          /\ db' = w.db
          /\ phys' = [w.phys EXCEPT !.steps = @ + 1]
    /\ got' = [call |-> "step", args |-> <<1>>]
    /\ UNCHANGED <<gsvars, loopvars, chanvars, netvars, histvars, graph>>

AbsentNext ==
    A_SetVelocity \/ A_UpdatePosition \/ A_Remove \/ A_Get \/ A_Step

Gone(d, id, gone) == IF gone THEN remove(d, id) ELSE d

\* the arena with some of its entities removed again, and a body for each of
\* its circles, the first with drag, at some velocity
AbsentInit ==
    /\ LibraryHost
    /\ \E g1 \in BOOLEAN, g2 \in BOOLEAN, g3 \in BOOLEAN :
          db = Gone(Gone(Gone(Arena, 1, g1), 2, g2), 3, g3)
    /\ \E v1 \in Vels \cup {0}, v2 \in Vels \cup {0} :
          phys = set_velocity(set_velocity(
                     add_body(add_body(PhysicsWorld_new, 1, 1, H, 5), 2, 1, 0, 0),
                     1, v1, 0), 2, v2, 0)
    /\ graph = Graph_new
    /\ got = NoRes

SpecAbsent == AbsentInit /\ [][AbsentNext]_vars

\* ============================================================ the byte stream
\* What the primitive writers of CommandBuffer put into the buffer, byte by
\* byte. A buffer is a sequence of runs <<byte, count>> in which no two
\* neighbours have the same byte, so that two buffers are equal exactly when
\* they hold the same bytes and a string of 65,536 bytes is one run.

U16_RANGE == 65536

RECURSIVE Size(_)
Size(bytes) == IF bytes = <<>> THEN 0 ELSE bytes[1][2] + Size(Tail(bytes))

\* BufMut::put_slice
put_slice(data, bytes) ==
    IF bytes = <<>> THEN data
    ELSE IF data = <<>> THEN bytes
    ELSE IF data[Len(data)][1] = bytes[1][1]
    THEN SubSeq(data, 1, Len(data) - 1)
             \o <<<<bytes[1][1], data[Len(data)][2] + bytes[1][2]>>>>
             \o Tail(bytes)
    ELSE data \o bytes

put_u8(data, v) == put_slice(data, <<<<v, 1>>>>)

put_u16_le(data, v) == put_u8(put_u8(data, v % 256), (v \div 256) % 256)

\* an f32 is its bit pattern, read as a 32-bit integer in two's complement
put_f32_le(data, bits) ==
    put_u8(put_u8(put_u8(put_u8(data, bits % 256), (bits \div 256) % 256),
                  (bits \div 65536) % 256), (bits \div 16777216) % 256)

\* `bytes.len() as u16`
as_u16(n) == n % U16_RANGE

\* data.put_u16_le(bytes.len() as u16); data.put_slice(bytes);
put_string(data, bytes) == put_slice(put_u16_le(data, as_u16(Size(bytes))), bytes)

clear_screen_bytes(data, r, g, b) ==
    put_u8(put_u8(put_u8(put_u8(data, OP_CLEAR), r), g), b)

set_color_bytes(data, r, g, b, a) ==
    put_u8(put_u8(put_u8(put_u8(put_u8(data, OP_SET_COLOR), r), g), b), a)

fill_rect_bytes(data, x, y, w, h) ==
    put_f32_le(put_f32_le(put_f32_le(put_f32_le(put_u8(data, OP_FILL_RECT), x), y), w), h)

draw_line_bytes(data, x1, y1, x2, y2, width) ==
    put_f32_le(put_f32_le(put_f32_le(put_f32_le(put_f32_le(
        put_u8(data, OP_DRAW_LINE), x1), y1), x2), y2), width)

draw_text_bytes(data, text, x, y) ==
    put_string(put_f32_le(put_f32_le(put_u8(data, OP_DRAW_TEXT), x), y), text)

load_sound_bytes(data, name, url) ==
    put_string(put_string(put_u8(data, OP_LOAD_SOUND), name), url)

play_sound_bytes(data, name, loop_sound, volume) ==
    put_f32_le(put_u8(put_string(put_u8(data, OP_PLAY_SOUND), name),
                      IF loop_sound THEN 1 ELSE 0), volume)

stop_sound_bytes(data, name) == put_string(put_u8(data, OP_STOP_SOUND), name)

set_volume_bytes(data, name, volume) ==
    put_f32_le(put_string(put_u8(data, OP_SET_VOLUME), name), volume)

\* ---- the reader of the stream, from the table of the opcodes

\* the fields of a command, in the order in which they are sent
Layout(op) ==
    CASE op = OP_CLEAR -> <<"u8", "u8", "u8">>
      [] op = OP_SET_COLOR -> <<"u8", "u8", "u8", "u8">>
      [] op = OP_FILL_RECT -> <<"f32", "f32", "f32", "f32">>
      [] op = OP_DRAW_LINE -> <<"f32", "f32", "f32", "f32", "f32">>
      [] op = OP_DRAW_TEXT -> <<"f32", "f32", "str">>
      [] op = OP_LOAD_SOUND -> <<"str", "str">>
      [] op = OP_PLAY_SOUND -> <<"str", "bool", "f32">>
      [] op = OP_STOP_SOUND -> <<"str">>
      [] op = OP_SET_VOLUME -> <<"str", "f32">>
      [] OTHER -> <<"unknown">>

\* the bytes after the first n, and the first n
Drop(bytes, n) ==
    LET RECURSIVE drop(_, _)
        drop(s, k) ==
            IF k = 0 \/ s = <<>> THEN s
            ELSE IF s[1][2] <= k THEN drop(Tail(s), k - s[1][2])
            ELSE <<<<s[1][1], s[1][2] - k>>>> \o Tail(s)
    IN drop(bytes, n)

Take(bytes, n) ==
    LET RECURSIVE take(_, _)
        take(s, k) ==
            IF k = 0 \/ s = <<>> THEN <<>>
            ELSE IF s[1][2] <= k THEN <<s[1]>> \o take(Tail(s), k - s[1][2])
            ELSE <<<<s[1][1], k>>>>
    IN take(bytes, n)

\* the byte at place i, from 1
ByteAt(bytes, i) == Drop(bytes, i - 1)[1][1]

get_u16_le(bytes) == ByteAt(bytes, 1) + 256 * ByteAt(bytes, 2)

get_f32_le(bytes) ==
    LET top == ByteAt(bytes, 4)
    IN ByteAt(bytes, 1) + 256 * ByteAt(bytes, 2) + 65536 * ByteAt(bytes, 3)
           + 16777216 * (IF top >= 128 THEN top - 256 ELSE top)

\* the width of the field of the kind `kind` at the head of bytes, or -1
\* when the bytes end before the field does
Width(kind, bytes) ==
    LET fixed == CASE kind = "u8" -> 1 [] kind = "bool" -> 1 [] kind = "f32" -> 4
                   [] kind = "str" -> 2 [] OTHER -> 0 - 1
        whole == IF kind = "str" /\ Size(bytes) >= 2 THEN 2 + get_u16_le(bytes) ELSE fixed
    IN IF whole < 0 \/ Size(bytes) < whole THEN 0 - 1 ELSE whole

Value(kind, bytes) ==
    CASE kind = "u8" -> ByteAt(bytes, 1)
      [] kind = "bool" -> ByteAt(bytes, 1) # 0
      [] kind = "f32" -> get_f32_le(bytes)
      [] kind = "str" -> Take(Drop(bytes, 2), get_u16_le(bytes))

\* what could not be read as a command
Unreadable == [op |-> 0, args |-> <<>>]

\* the fields of one command: [ok, args, rest]
RECURSIVE Fields(_, _)
Fields(layout, bytes) ==
    IF layout = <<>> THEN [ok |-> TRUE, args |-> <<>>, rest |-> bytes]
    ELSE LET w == Width(Head(layout), bytes)
         IN IF w < 0 THEN [ok |-> FALSE, args |-> <<>>, rest |-> <<>>]
            ELSE LET more == Fields(Tail(layout), Drop(bytes, w))
                 IN [more EXCEPT !.args = <<Value(Head(layout), bytes)>> \o @]

\* the commands of a stream; it ends with Unreadable where the reader stops
RECURSIVE Parse(_)
Parse(bytes) ==
    IF bytes = <<>> THEN <<>>
    ELSE LET op == ByteAt(bytes, 1)
             read == Fields(Layout(op), Drop(bytes, 1))
         IN IF read.ok THEN <<[op |-> op, args |-> read.args]>> \o Parse(read.rest)
            ELSE <<Unreadable>>

\* one command, written as the writer of its opcode writes it
EncodeOne(data, c) ==
    LET a == c.args
    IN CASE c.op = OP_CLEAR -> clear_screen_bytes(data, a[1], a[2], a[3])
         [] c.op = OP_SET_COLOR -> set_color_bytes(data, a[1], a[2], a[3], a[4])
         [] c.op = OP_FILL_RECT -> fill_rect_bytes(data, a[1], a[2], a[3], a[4])
         [] c.op = OP_DRAW_LINE -> draw_line_bytes(data, a[1], a[2], a[3], a[4], a[5])
         [] c.op = OP_DRAW_TEXT -> draw_text_bytes(data, a[3], a[1], a[2])
         [] c.op = OP_LOAD_SOUND -> load_sound_bytes(data, a[1], a[2])
         [] c.op = OP_PLAY_SOUND -> play_sound_bytes(data, a[1], a[2], a[3])
         [] c.op = OP_STOP_SOUND -> stop_sound_bytes(data, a[1])
         [] c.op = OP_SET_VOLUME -> set_volume_bytes(data, a[1], a[2])
         [] OTHER -> data

RECURSIVE Encode(_, _)
Encode(data, cmds) ==
    IF cmds = <<>> THEN data ELSE Encode(EncodeOne(data, Head(cmds)), Tail(cmds))

\* ---- a script that issues commands

MaxCmds == 2
MaxShort == 2

\* a string of n bytes, all 'A'
Str(n) == IF n = 0 THEN <<>> ELSE <<<<65, n>>>>

\* short strings, and those around the greatest length two bytes can count
Strings == {Str(n) : n \in (0..MaxShort) \cup {U16_RANGE - 1, U16_RANGE, U16_RANGE + 1}}
Colors == {0, 255}
\* 1.0 and -1.0
Floats == {1065353216, 0 - 1082130432}

Issue(c) ==
    /\ got.call = "emit"
    /\ Len(got.cmds) < MaxCmds
    /\ got' = [call |-> "emit", cmds |-> Append(got.cmds, c),
               bytes |-> EncodeOne(got.bytes, c)]
    /\ UNCHANGED <<gsvars, loopvars, chanvars, netvars, histvars, db, phys, graph>>

W_ClearScreen ==
    \E r \in Colors, g \in Colors, b \in Colors :
        Issue([op |-> OP_CLEAR, args |-> <<r, g, b>>])

W_SetColor ==
    \E r \in Colors, g \in Colors, b \in Colors, a \in Colors :
        Issue([op |-> OP_SET_COLOR, args |-> <<r, g, b, a>>])

W_FillRect ==
    \E x \in Floats, y \in Floats, w \in Floats, h \in Floats :
        Issue([op |-> OP_FILL_RECT, args |-> <<x, y, w, h>>])

W_DrawLine ==
    \E x1 \in Floats, y1 \in Floats, x2 \in Floats, y2 \in Floats, width \in Floats :
        Issue([op |-> OP_DRAW_LINE, args |-> <<x1, y1, x2, y2, width>>])

W_DrawText ==
    \E text \in Strings, x \in Floats, y \in Floats :
        Issue([op |-> OP_DRAW_TEXT, args |-> <<x, y, text>>])

W_LoadSound ==
    \E name \in Strings, url \in Strings :
        Issue([op |-> OP_LOAD_SOUND, args |-> <<name, url>>])

W_PlaySound ==
    \E name \in Strings, loop_sound \in BOOLEAN, volume \in Floats :
        Issue([op |-> OP_PLAY_SOUND, args |-> <<name, loop_sound, volume>>])

W_StopSound ==
    \E name \in Strings : Issue([op |-> OP_STOP_SOUND, args |-> <<name>>])

W_SetVolume ==
    \E name \in Strings, volume \in Floats :
        Issue([op |-> OP_SET_VOLUME, args |-> <<name, volume>>])

WireNext ==
    \/ W_ClearScreen \/ W_SetColor \/ W_FillRect \/ W_DrawLine \/ W_DrawText
    \/ W_LoadSound \/ W_PlaySound \/ W_StopSound \/ W_SetVolume

\* CommandBuffer::new()
WireInit ==
    /\ LibraryHost
    /\ db = SpatialDb_new(1)
    /\ phys = PhysicsWorld_new
    /\ graph = Graph_new
    /\ got = [call |-> "emit", cmds |-> <<>>, bytes |-> <<>>]

SpecWire == WireInit /\ [][WireNext]_vars

\* ---- one step on a world of bodies with and without mass

\* no body, or the mass of the body
Weights == {0 - 1, 0, 1, Infinity}

\* the world p with a body of mass `mass` (none when it is -1) on the entity
\* id, at the velocity vx
Weighted(p, id, mass, vx) ==
    IF mass < 0 THEN p ELSE set_velocity(add_body(p, id, mass, 0, 0), id, vx, 0)

Mass_Step ==
    /\ got = NoRes
    /\ \E w \in step([db |-> db, phys |-> phys], 1) :
          /\ db' = w.db
          /\ phys' = [w.phys EXCEPT !.steps = @ + 1]
    /\ got' = [call |-> "step", args |-> <<1>>]
    /\ UNCHANGED <<gsvars, loopvars, chanvars, netvars, histvars, graph>>

\* the arena with any body, or none, on each of its circles and on its wall
MassInit ==
    /\ LibraryHost
    /\ db = Arena
    /\ \E m1 \in Weights, m2 \in Weights, m3 \in {0 - 1, 0} :
       \E v1 \in Vels \cup {0}, v2 \in Vels \cup {0} :
          phys = Weighted(Weighted(Weighted(PhysicsWorld_new, 1, m1, v1), 2, m2, v2), 3, m3, 0)
    /\ graph = Graph_new
    /\ got = NoRes

SpecMass == MassInit /\ [][Mass_Step]_vars

\* ------------------------------------- connections that ask for a session id

\* the session ids a client may ask for (`?session=<id>`), the id another
\* connection carries included
SessionIds == Conns

\* handle_socket: the session id is the one the client asked for, or a fresh
\* one; WELCOME is sent on the websocket, and on a send error it returns
handle_socket(c, requested_session, sent_ok) ==
    /\ net[c] = "start"
    /\ IF c = 1 THEN TRUE ELSE net[c - 1] # "start"
    /\ session' = [session EXCEPT ![c] =
                      IF requested_session = Absent THEN Uuids[c]
                      ELSE CHOOSE s \in requested_session : TRUE]
    /\ net' = [net EXCEPT ![c] = IF sent_ok THEN "welcome" ELSE "done"]
    /\ UNCHANGED <<engvars, gsvars, loopvars, chanvars, n_in, io, histvars>>

SessionNetNext ==
    \E c \in Conns :
        \/ \E sent_ok \in BOOLEAN :
               \E requested_session \in {Absent} \cup {Some(s) : s \in SessionIds} :
                   handle_socket(c, requested_session, sent_ok)
        \/ N_Push(c)
        \/ N_Recv(c)
        \/ N_Close(c)
        \/ N_DropRender(c)
        \/ N_DropInput(c)

\* The server running a script whose callbacks write no commands, with
\* debugging disabled, a script file that is not modified and clients that
\* send no input
SessionNext == AudioLoopNext \/ SessionNetNext
SpecSession == Init /\ [][SessionNext]_vars

\* ================================================== properties checked

\* The op code each api function writes (lib.rs, the opcode table)
OpOf(fn) ==
    CASE fn = "clear_screen" -> 1
      [] fn = "set_color" -> 2
      [] fn = "fill_rect" -> 3
      [] fn = "draw_line" -> 4
      [] fn = "draw_text" -> 5
      [] fn = "load_sound" -> 6
      [] fn = "play_sound" -> 7
      [] fn = "stop_sound" -> 8
      [] fn = "set_volume" -> 9

\* the records of the api calls `calls`, in emission order
RecordsOf(calls, tag) ==
    [i \in 1..Len(calls) |-> [op |-> OpOf(calls[i]), tag |-> tag]]

\* the records of the logged sound calls, in emission order
EventRecords(log) ==
    [i \in 1..Len(log) |-> [op |-> OpOf(log[i][1]), tag |-> log[i][2]]]

IsSound(r) == r.op \in {7, 8, 9}
NotSound(r) == ~IsSound(r)
IsPlay(r) == r.op = 7
IsPlayCall(fn) == fn = "play_sound"

Seq1(n) == [i \in 1..n |-> i]
IsPrefix(p, q) == Len(p) <= Len(q) /\ SubSeq(q, 1, Len(p)) = p

\* the frame loop calls draw for connection c in this step
DrawStepOf(c) ==
    /\ pc = "draw" /\ idx <= Len(clients) /\ clients[idx] = c
    /\ tick'.drawn[c] = tick.drawn[c] + 1

\* ------------------------------------------------------------------ C1

\* C1: whatever the sequence of GameState calls, the bytes a successful
\* draw(S) returns are the event buffer (the sound records written in Update
\* mode since the last begin_frame, in emission order) followed by the
\* commands this draw emitted, in emission order, and nothing else.
C1_DrawBytes ==
    /\ game.event_buffer = EventRecords(ev_log)
    /\ (ret.kind = "draw" /\ ret.ok) =>
           ret.bytes = EventRecords(ev_log)
                       \o RecordsOf(ret.emitted, Tag(script, "draw", ret.sid))

\* a draw that returned both events and commands of its own
C1_Witness ==
    /\ ret.kind = "draw" /\ ret.ok
    /\ ev_log # <<>> /\ ret.emitted # <<>>
    /\ Len(ret.bytes) = MaxBuf

\* ------------------------------------------------------------------ C2

\* C2: every play_sound, stop_sound or set_volume call of a callback appends
\* one record to the event buffer when the mode is Update and to the
\* frame-local buffer when it is Draw; every call of the six drawing
\* functions appends one record to the frame-local buffer in either mode and
\* leaves the event buffer alone.
C2_ApiRouting ==
    [][ret'.kind # "none" =>
        LET recs == RecordsOf(ret'.emitted, Tag(script, ret'.kind, ret'.sid))
            inUpdate == game'.current_mode = "Update"
            toEvents == IF inUpdate THEN SelectSeq(recs, IsSound) ELSE <<>>
            toLocal == IF inUpdate THEN SelectSeq(recs, NotSound) ELSE recs
            local == game'.command_buffer
            n == Len(local) - Len(toLocal)
        IN /\ game'.event_buffer = game.event_buffer \o toEvents
           /\ n >= 0
           /\ SubSeq(local, n + 1, Len(local)) = toLocal
           /\ SubSeq(local, 1, n) \in {game.command_buffer, <<>>, game.event_buffer}
    ]_vars

\* a callback in Draw mode made a sound call after another one had made a
\* sound call in Update mode
C2_Witness ==
    /\ ret.kind \in {"draw", "on_connect", "handle_input"}
    /\ game.current_mode = "Draw"
    /\ \E i \in DOMAIN ret.emitted : ret.emitted[i] \in SoundFns
    /\ game.event_buffer # <<>>

\* ------------------------------------------------------------------ C3

\* C3: in the frame loop, the number of PLAY_SOUND records a successful
\* draw(S) returns is the number of play_sound calls of this iteration's
\* update plus the number of play_sound calls of this draw(S), whatever the
\* earlier iterations and the earlier callbacks of this iteration did.
C3_SoundCount ==
    (ret.kind = "draw" /\ ret.ok) =>
        Len(SelectSeq(ret.bytes, IsPlay))
            = Len(SelectSeq(upd_emitted, IsPlayCall))
              + Len(SelectSeq(ret.emitted, IsPlayCall))

\* ------------------------------------------------------------------ C4

\* the records of this iteration's update that are sound events
UpdateSounds == EventRecords(SoundCalls(upd_emitted, Tag(script, "update", 0)))

\* every record a draw(S) call wrote that sits in a queued frame sits in a
\* frame of S's render queue
DrawSoundsStayLocal ==
    \A c \in Conns : \A i \in DOMAIN rq[c] : \A j \in DOMAIN rq[c][i] :
        rq[c][i][j].tag[1] = "draw" => rq[c][i][j].tag[2] = c

\* C4 (amended): the bytes of every successful draw(S) of an iteration hold
\* each sound event of that iteration's update once, and the records of the
\* sound calls of this draw(S), which carry S; the frame is appended to S's
\* render queue and to no other, unless that queue is full (the frame is
\* dropped, S stays) or closed (S is removed); a draw(S) that fails sends
\* nothing. No queued frame of another session holds a record of draw(S).
C4_UpdateSoundsInEveryFrame ==
    [][/\ DrawSoundsStayLocal'
       /\ \A c \in Conns : DrawStepOf(c) =>
            LET res == try_send(rq[c], rx_render[c], RenderCap)
                IsUpd(r) == r.tag = Tag(script, "update", 0)
                IsDraw(r) == r.tag[1] = "draw"
                IsMine(r) == r.tag = Tag(script, "draw", c)
            IN /\ \A d \in Conns \ {c} : rq'[d] = rq[d]
               /\ game'.event_buffer = game.event_buffer
               /\ ret'.ok =>
                    /\ SelectSeq(ret'.bytes, IsUpd) = UpdateSounds
                    /\ SelectSeq(ret'.bytes, IsDraw) = SelectSeq(ret'.bytes, IsMine)
                    /\ Len(SelectSeq(ret'.bytes, IsMine)) = Len(ret'.emitted)
                    /\ res = "Ok" => rq'[c] = Append(rq[c], ret'.bytes)
                    /\ res = "Full" => rq'[c] = rq[c] /\ pc' = "draw" /\ clients' = clients
                    /\ res = "Closed" => rq'[c] = rq[c] /\ pc' = "closed"
               /\ ~ret'.ok => rq'[c] = rq[c] /\ clients' = clients
      ]_vars

\* two sessions were drawn in an iteration whose update made a sound: both
\* frames were enqueued, and the last one also holds a sound of its draw
C4_Witness ==
    /\ pc = "draw" /\ idx > Len(clients) /\ Len(clients) = 2
    /\ UpdateSounds # <<>>
    /\ \A c \in Conns : sent[c] = "Ok" /\ rq[c] # <<>>
    /\ ret.kind = "draw" /\ ret.emitted # <<>>
    /\ rq[ret.sid][Len(rq[ret.sid])] = ret.bytes

\* C4 as stated: when the draw phase of an iteration is over, a frame with
\* the sound events of its update was enqueued in this iteration to the render
\* queue of every session that is still active.
C4_EnqueuedToEveryActive ==
    (pc = "draw" /\ idx > Len(clients) /\ UpdateSounds # <<>>) =>
        \A i \in DOMAIN clients : sent[clients[i]] = "Ok"

\* ------------------------------------------------------------------ C5

\* the place of a call in an iteration: on_connect, then eval, then the
\* input drain, then update, then the render pass
Rank(kind, upd) ==
    CASE kind = "none" -> 0
      [] kind = "on_connect" -> 1
      [] kind = "eval" -> 2
      [] kind = "handle_input" -> 3
      [] kind = "on_disconnect" -> IF upd = 0 THEN 3 ELSE 5
      [] kind = "update" -> 4
      [] kind = "draw" -> 5

\* The order of the calls of an iteration, as a condition on every step.
\* With replayFirst, the on_connect calls that a hot reload replays for the
\* sessions already active may precede begin_frame; without it no call may.
C5_Step(replayFirst) ==
    /\ (ret' # ret /\ ret'.kind # "none") =>
         /\ Rank(ret'.kind, tick'.upd) >= Rank(ret.kind, tick.upd)
         /\ \/ tick.began
            \/ replayFirst /\ ret'.kind = "on_connect" /\ ret'.sid \in Range(clients)
    /\ Len(clients') > Len(clients) =>
         /\ tick.began /\ tick.upd = 0 /\ Rank(ret.kind, tick.upd) <= 1
         /\ ret'.kind = "on_connect" /\ ret'.sid = clients'[Len(clients')]
    /\ delivered' # delivered => tick.began /\ tick.upd = 0
    /\ tick'.upd # tick.upd /\ tick'.began => tick.began /\ tick.upd = 0 /\ tick'.upd = 1
    /\ \A c \in Conns : tick'.drawn[c] > tick.drawn[c] =>
         tick.upd = 1 /\ tick.drawn[c] = 0 /\ tick.began
    /\ (pc = "draw" /\ pc' = "top") =>
         /\ tick.began /\ tick.upd = 1
         /\ \A i \in DOMAIN clients : tick.drawn[clients[i]] = 1
    /\ (~tick.began /\ tick'.began) =>
         tick'.upd = 0 /\ \A c \in Conns : tick'.drawn[c] = 0

\* C5 (amended): in every iteration of the frame loop the calls occur in
\* this order: the on_connect replays of a hot reload, if the iteration
\* reloads the script, for the sessions already active; begin_frame; on_connect
\* for each newly admitted session; the input drain; update exactly once;
\* draw exactly once for each session still active. No draw precedes the
\* update of its iteration, and when the iteration ends every active session
\* was drawn once.
C5_CallOrder == [][C5_Step(TRUE)]_vars

\* C5 as stated: begin_frame precedes every other call of its iteration.
C5_BeginFrameFirst == [][C5_Step(FALSE)]_vars

\* the end of an iteration that admitted a session, delivered an input and
\* drew two sessions
C5_Witness ==
    /\ pc = "draw" /\ idx > Len(clients) /\ Len(clients) = 2
    /\ tick.began /\ tick.upd = 1
    /\ \A c \in Conns : tick.drawn[c] = 1
    /\ \E c \in Conns : delivered[c] # <<>>

\* ------------------------------------------------------------------ C6

\* C6 (amended): on_input gets the inputs of a session in the order in which
\* they were accepted into its queue, each at most once and none after the
\* session's on_disconnect; while the session is not disconnected every
\* accepted input is delivered or still queued, and a session that the input
\* drain removes has got every accepted input.
C6_InputOrder ==
    [][\A c \in Conns :
        /\ IsPrefix(delivered'[c], Seq1(n_in'[c]))
        /\ disc'[c] = 0 => delivered'[c] \o inq'[c] = Seq1(n_in'[c])
        /\ disc[c] > 0 => delivered'[c] = delivered[c]
        /\ (disc'[c] > disc[c] /\ pc = "input") => delivered'[c] = Seq1(n_in'[c])
      ]_vars

\* a session got two inputs and was then removed by the input drain
C6_Witness ==
    \E c \in Conns :
        /\ delivered[c] = <<1, 2>> /\ disc[c] = 1
        /\ ret.kind = "on_disconnect" /\ ret.sid = c /\ tick.upd = 0

\* C6 as stated: a session that was disconnected got every input accepted
\* into its queue.
C6_EveryAcceptedInputDelivered ==
    \A c \in Conns : disc[c] > 0 => delivered[c] = Seq1(n_in[c])

\* ------------------------------------------------------------------ C7

\* C7: when draw(S) succeeds while S's render queue is full, the frame is
\* dropped: the queue is unchanged, on_disconnect is not called and S stays
\* active. A session leaves the active list only when its input queue is
\* disconnected or its render queue closed.
C7_FullQueueDropsFrame ==
    [][/\ \A c \in Conns :
            (DrawStepOf(c) /\ ret'.ok /\ rx_render[c] /\ Len(rq[c]) >= RenderCap) =>
                /\ rq' = rq
                /\ disc' = disc
                /\ clients' = clients
                /\ pc' = "draw" /\ idx' = idx + 1
       /\ Len(clients') < Len(clients) =>
            LET c == clients[idx]
            IN /\ clients' = RemoveAt(clients, idx)
               /\ \/ pc = "input" /\ ~tx_input[c] /\ inq[c] = <<>>
                  \/ pc = "closed" /\ ~rx_render[c]
      ]_vars

\* the frame of an active session was dropped on a full queue
C7_Witness ==
    \E c \in Conns :
        /\ sent[c] = "Full" /\ ret.kind = "draw" /\ ret.sid = c /\ ret.ok
        /\ c \in Range(clients) /\ Len(rq[c]) = RenderCap /\ disc[c] = 0

\* ------------------------------------------------------------------ C8

\* the frame loop takes a step
LoopStep == <<pc, idx, clients, delivered, disc, tick>>' # <<pc, idx, clients, delivered, disc, tick>>

\* C8 (amended): when the input drain reaches a session whose input senders
\* are all dropped, it hands the inputs still queued to on_input, oldest first, and
\* then calls on_disconnect and removes the session; on_disconnect is called
\* at most once for a session, which is then no longer active, and no draw is
\* called for it afterwards.
C8_InputClosed ==
    [][/\ (LoopStep /\ pc = "input" /\ idx <= Len(clients) /\ ~tx_input[clients[idx]]) =>
            LET c == clients[idx]
            IN IF inq[c] # <<>>
               THEN /\ delivered'[c] = Append(delivered[c], Head(inq[c]))
                    /\ inq'[c] = Tail(inq[c])
                    /\ ret'.kind = "handle_input" /\ ret'.sid = c
                    /\ clients' = clients /\ idx' = idx /\ pc' = "input"
                    /\ disc' = disc
               ELSE /\ disc'[c] = disc[c] + 1
                    /\ ret'.kind = "on_disconnect" /\ ret'.sid = c
                    /\ clients' = RemoveAt(clients, idx)
                    /\ delivered' = delivered
       /\ \A c \in Conns :
            /\ disc'[c] <= 1
            /\ disc'[c] > 0 => c \notin Range(clients')
            /\ disc[c] > 0 => tick'.drawn[c] <= tick.drawn[c]
      ]_vars

\* a session whose senders are dropped while its render receiver lives: the
\* drain delivered every input it had accepted, then removed the session
C8_Witness ==
    \E c \in Conns :
        /\ ~tx_input[c] /\ rx_render[c]
        /\ n_in[c] > 0 /\ delivered[c] = Seq1(n_in[c])
        /\ disc[c] = 1 /\ ret.kind = "on_disconnect" /\ ret.sid = c
        /\ c \notin Range(clients) /\ pc = "input"

\* C8 as stated: a session whose input senders are all dropped is removed
\* by the next input drain, after that drain handed the inputs still queued to
\* on_input; until then the render pass draws it and keeps it.
C8_NextDrainDelivers ==
    [][\A c \in Conns :
        (DrawStepOf(c) /\ ~tx_input[c] /\ inq[c] # <<>>) =>
            pc' = "draw" /\ clients' = clients
      ]_vars

\* ------------------------------------------------------------------ C9

\* C9: when the render pass reaches a session whose render receiver is
\* dropped, on_disconnect is called for it and it is removed.
C9_RenderClosed ==
    [][\A c \in Conns : (DrawStepOf(c) /\ ~rx_render[c]) => pc' = "closed"]_vars

\* ----------------------------------------------------------------- C10

\* C10: a script error never stops the iteration and removes no session:
\* after an on_connect error the session is admitted, after an on_input error
\* the drain goes on with the same session, after an eval error the drain
\* starts, after an update error the render pass starts, after a draw error
\* for S the pass goes on with the next session and S stays, and an
\* on_disconnect error changes nothing in the removal of that one session;
\* when the iteration ends every session was drawn.
C10_ErrorsContinue ==
    [][/\ Len(new_clients') < Len(new_clients) =>
            /\ clients' = Append(clients, new_clients[Len(new_clients)])
            /\ pc' = "accept"
       /\ (pc = "replay" /\ idx' # idx) => clients' = clients /\ pc' = "replay"
       /\ (delivered' # delivered /\ ~ret'.ok) =>
            /\ pc' = "input" /\ idx' = idx /\ clients' = clients
            /\ inq'[clients[idx]] = Tail(inq[clients[idx]])
       /\ (rx_debug' < rx_debug /\ ~ret'.ok) =>
            pc' = "input" /\ idx' = 1 /\ clients' = clients
       /\ (tick'.upd > tick.upd /\ ~ret'.ok) =>
            pc' = "draw" /\ idx' = 1 /\ clients' = clients
       /\ \A c \in Conns : (DrawStepOf(c) /\ ~ret'.ok) =>
            /\ pc' = "draw" /\ idx' = idx + 1
            /\ clients' = clients /\ disc' = disc
       /\ \A c \in Conns : (disc'[c] > disc[c]) =>
            /\ clients' = RemoveAt(clients, idx) /\ clients[idx] = c
            /\ pc' \in {"input", "draw"} /\ idx' = idx
       /\ (ret' # ret /\ ~ret'.ok /\ ret'.kind # "on_disconnect") =>
            Range(clients) \subseteq Range(clients')
       /\ (pc = "draw" /\ pc' = "top") =>
            tick.upd = 1 /\ \A i \in DOMAIN clients : tick.drawn[clients[i]] = 1
      ]_vars

\* the draw of the first session failed; the second session was drawn and
\* got its frame, and both are active when the iteration ends
C10_Witness ==
    /\ pc = "draw" /\ idx > Len(clients) /\ Len(clients) = 2
    /\ sent[clients[1]] = "Err" /\ sent[clients[2]] = "Ok"
    /\ tick.upd = 1 /\ \A c \in Conns : tick.drawn[c] = 1

\* ---------------------------------------------------------------------------
\* Hot reload

\* C11: the game state is replaced only at the top of an iteration, before
\* begin_frame and after the previous iteration's draws; the new instance
\* then gets on_connect once for each client of the active list, for no
\* session outside it (one waiting in the admission queue included), and
\* begin_frame only after the last of them
C11_Step ==
    /\ (pc # "replay" /\ pc' = "replay") =>
         pc = "top" /\ tick = NoTick /\ tick' = NoTick
    /\ pc = "replay" =>
         /\ clients' = clients /\ ~tick'.began
         /\ \/ tick'.conn = tick.conn
            \/ \E c \in Range(clients) :
                   /\ tick.conn[c] = 0
                   /\ tick'.conn = [tick.conn EXCEPT ![c] = 1]
                   /\ ret'.kind = "on_connect" /\ ret'.sid = c
    /\ (pc = "replay" /\ pc' # "replay") =>
         /\ pc' = "begin"
         /\ \A c \in Conns :
                tick.conn[c] = IF c \in Range(clients) THEN 1 ELSE 0
    /\ pc = "begin" => tick'.conn = tick.conn \/ (tick'.began /\ pc' = "accept")

C11_ReloadReplay == [][C11_Step]_vars

\* a reload replayed on_connect for the one active session and not for the
\* session still waiting in the admission queue
C11_Witness ==
    /\ pc = "begin" /\ game.current_mode = "Update"
    /\ \E c, d \in Conns :
           /\ clients = <<c>> /\ new_clients = <<d>>
           /\ tick.conn[c] = 1 /\ tick.conn[d] = 0
\* C12: the replay hands the bytes of on_connect(S) to try_send on S's render
\* queue: they are appended when the receiver lives and the queue holds fewer
\* than RenderCap frames, and dropped when the queue is full or closed; an
\* on_connect that failed sends nothing. No client leaves the list either way.
C12_Step ==
    (pc = "replay" /\ tick'.conn # tick.conn) =>
        LET c == ret'.sid
        IN /\ \A d \in Conns \ {c} : rq'[d] = rq[d]
           /\ clients' = clients
           /\ rq'[c] = IF ret'.ok /\ rx_render[c] /\ Len(rq[c]) < RenderCap
                       THEN Append(rq[c], ret'.bytes)
                       ELSE rq[c]

C12_ReplayTrySend == [][C12_Step]_vars

\* a replay whose bytes were enqueued - and one whose bytes were dropped at a
\* full queue
C12_Witness ==
    /\ pc = "replay" /\ Len(clients) = 2 /\ idx = 3
    /\ sent[clients[1]] = "Ok" /\ rq[clients[1]] # <<>>
    /\ sent[clients[2]] = "Full" /\ Len(rq[clients[2]]) = RenderCap

\* C12 as stated: the bytes of every successful replayed on_connect(S) are
\* in S's render queue after the call, whatever the queue held (S's network
\* task is alive and holds the receiver)
C12_ReplayBytesEnqueued ==
    [][(pc = "replay" /\ tick'.conn # tick.conn /\ ret'.ok /\ rx_render[ret'.sid]) =>
          rq'[ret'.sid] = Append(rq[ret'.sid], ret'.bytes)]_vars
\* C13: a reload whose load_game returns None consumes the signal and changes
\* nothing else: the game state, the script, the active list, the admission
\* queue, every render and input queue and the call record are the same, no
\* on_connect is called, and the next call of the loop is begin_frame on that
\* same game state
C13_Step ==
    /\ (pc = "top" /\ notify /\ pc' = "begin") =>
         /\ ~notify'
         /\ <<script, game, ret, ev_log>>' = <<script, game, ret, ev_log>>
         /\ <<clients, new_clients, rx_debug>>' = <<clients, new_clients, rx_debug>>
         /\ <<rq, rx_render, inq, tx_input>>' = <<rq, rx_render, inq, tx_input>>
         /\ <<delivered, disc, tick>>' = <<delivered, disc, tick>>
    /\ (pc = "begin" /\ tick.conn = NoTick.conn /\ LoopStep) =>
         /\ pc' = "accept" /\ tick'.began
         /\ game' = begin_frame(game)
         /\ clients' = clients

C13_FailedReload == [][C13_Step]_vars

\* after a failed reload: the game state is the one the previous tick left
\* (in Draw mode, where a fresh one is in Update mode), with its session and
\* the frame queued for it
C13_Witness ==
    /\ pc = "begin" /\ game.current_mode = "Draw"
    /\ clients # <<>> /\ rq[clients[1]] # <<>>
    /\ tick = NoTick
\* ---------------------------------------------------------------------------
\* Admission

\* C14: on_connect(S) is called only when S is admitted (once: S was never in
\* the active list before) and once in the replay of each later game state.
\* At admission S's render queue is empty and no draw(S) has run, so the
\* bytes of a successful on_connect are the first message of the queue; they
\* are enqueued once when the receiver is alive and not at all otherwise. At
\* the end of the tick every session admitted in it has had its draw, unless
\* the input drain of that tick removed it.
C14_Step ==
    /\ \A c \in Conns :
         tick'.conn[c] > tick.conn[c] =>
            /\ tick.conn[c] = 0 /\ tick'.conn[c] = 1
            /\ ret'.kind = "on_connect" /\ ret'.sid = c
            /\ \/ /\ pc = "replay" /\ c \in Range(clients)
               \/ /\ pc = "accept" /\ tick.began
                  /\ c \notin Range(clients) /\ disc[c] = 0
                  /\ clients' = Append(clients, c)
                  /\ rq[c] = <<>> /\ tick.drawn[c] = 0
                  /\ rq'[c] = IF ret'.ok /\ rx_render[c] THEN <<ret'.bytes>> ELSE <<>>
    /\ Len(clients') > Len(clients) =>
         /\ pc = "accept"
         /\ tick'.conn[clients'[Len(clients')]] = 1
    /\ (tick.began /\ ~tick'.began) =>
         \A c \in Conns :
            tick.conn[c] = 1 => tick.drawn[c] = 1 \/ disc[c] > 0

C14_Admission == [][C14_Step]_vars

\* a session admitted in this tick, still active, whose on_connect bytes were
\* taken by its network task and whose first draw frame is now queued
C14_Witness ==
    \E c \in Conns :
        /\ tick.began /\ tick.conn[c] = 1 /\ tick.drawn[c] = 1
        /\ c \in Range(clients) /\ sent[c] = "Ok" /\ rq[c] # <<>>

\* C14 as stated: the bytes returned by every on_connect(S), at admission and
\* on each later game state, are enqueued to S's render queue (S's network
\* task is alive and holds the receiver)
C14_ConnectBytesEnqueued ==
    [][\A c \in Conns :
          (tick'.conn[c] > tick.conn[c] /\ ret'.ok /\ rx_render[c]) =>
              rq'[c] = Append(rq[c], ret'.bytes)]_vars
\* ---------------------------------------------------------------------------
\* The handshake and the two outgoing channels

\* C15: the first message sent on the websocket of a connection is WELCOME:
\* whenever the connection is in the admission queue or in the active list,
\* has a frame in its render queue or its relay queue, or has had a frame
\* taken by its coordinator, WELCOME has been sent, and no Binary, ANSWER or
\* CANDIDATE message was sent before it
C15_WelcomeFirst ==
    /\ io.first \in {"none", "WELCOME"}
    /\ \/ io.first = "WELCOME"
       \/ /\ Me \notin Range(new_clients) \cup Range(clients)
          /\ rq[Me] = <<>> /\ io.ws_frame = <<>> /\ io.taken = 0
          /\ ~rx_render[Me] /\ ~tx_input[Me]
          /\ net[Me] \in {"start", "done"}

\* the session is active and a draw frame has gone out as a Binary message
\* after WELCOME
C15_Witness ==
    /\ io.first = "WELCOME" /\ Me \in Range(clients)
    /\ \E f \in 1..MaxFrames : f > 1 /\ "ws" \in io.sent_on[f]

\* C16 (states): a frame is sent on at most one channel; a frame waiting in
\* the relay queue has been sent on none; while the websocket loop runs,
\* every frame the coordinator has taken has been sent or waits in the relay
\* queue, which holds the frames in the order in which they were taken.
C16_Inv ==
    /\ \A f \in 1..MaxFrames :
          /\ Cardinality(io.sent_on[f]) <= 1
          /\ f > io.taken => io.sent_on[f] = {} /\ f \notin Range(io.ws_frame)
          /\ f \in Range(io.ws_frame) => io.sent_on[f] = {}
          /\ (f <= io.taken /\ net[Me] = "run") =>
                io.sent_on[f] # {} \/ f \in Range(io.ws_frame)
    /\ \A i, j \in DOMAIN io.ws_frame : i < j => io.ws_frame[i] < io.ws_frame[j]

\* C16 (steps): the coordinator takes the head of the render queue and either
\* sends it on the data channel, which is then Open, or puts it at the end of
\* the relay queue; the websocket loop sends the head of the relay queue; a
\* frame sent on a channel was taken after every frame sent on it before.
C16_Step ==
    /\ io'.taken # io.taken =>
         LET f == io'.taken
         IN /\ f = io.taken + 1 /\ rq[Me] # <<>> /\ rq'[Me] = Tail(rq[Me])
            /\ \/ /\ io'.sent_on[f] = {"dc"} /\ io.dc = "Open"
                  /\ io'.ws_frame = io.ws_frame
               \/ /\ io'.sent_on[f] = {}
                  /\ io'.ws_frame = IF net[Me] = "run"
                                    THEN Append(io.ws_frame, f) ELSE io.ws_frame
    /\ \A f \in 1..MaxFrames : \A ch \in io'.sent_on[f] \ io.sent_on[f] :
         /\ \A g \in 1..MaxFrames : ch \in io.sent_on[g] => g < f
         /\ ch = "ws" =>
               /\ io.ws_frame # <<>> /\ f = Head(io.ws_frame)
               /\ io'.ws_frame = Tail(io.ws_frame)
         /\ ch = "dc" => f = io'.taken /\ io'.taken # io.taken

C17_FullQueueDropsInput ==
    [][(n_in'[Me] > n_in[Me] /\ Len(inq[Me]) = InputCap /\ RxInputAlive(Me)) =>
          /\ inq' = inq
          /\ io'.wait = NoInput /\ io'.dc_wait = NoInput]_vars

\* C18: a message of exactly 2 bytes, from the websocket or the data channel,
\* becomes the input (byte 0, byte 1 # 0): it is put at the end of the
\* session's input queue, or its sender waits for room, or the queue has no
\* receiver any more; a message of any other length changes nothing but the
\* record of the last message: no queue, no session, and the connection's
\* task goes on. The input queue grows by such inputs only.
C18_Step ==
    /\ (io'.rcv # io.rcv \/ n_in' # n_in) =>
         LET ch == io'.rcv[1]
             data == io'.rcv[2]
             input == <<data[1], data[2] # 0>>
         IN ch \in {"ws", "dc"} =>
              /\ net' = net /\ clients' = clients /\ new_clients' = new_clients
              /\ <<rq, rx_render, tx_input>>' = <<rq, rx_render, tx_input>>
              /\ \A c \in Conns \ {Me} : inq'[c] = inq[c]
              /\ IF Len(data) = 2
                 THEN /\ n_in'[Me] = n_in[Me] + 1
                      /\ \/ /\ inq'[Me] = Append(inq[Me], input)
                            /\ Len(inq[Me]) < InputCap
                            /\ io' = [io EXCEPT !.rcv = <<ch, data>>]
                         \/ /\ inq'[Me] = inq[Me] /\ ~RxInputAlive(Me)
                            /\ io' = [io EXCEPT !.rcv = <<ch, data>>]
                         \/ /\ inq'[Me] = inq[Me] /\ Len(inq[Me]) = InputCap
                            /\ io' = IF ch = "ws"
                                     THEN [io EXCEPT !.rcv = <<ch, data>>, !.wait = input]
                                     ELSE [io EXCEPT !.rcv = <<ch, data>>, !.dc_wait = input]
                 ELSE /\ n_in' = n_in /\ inq' = inq
                      /\ io' = [io EXCEPT !.rcv = <<ch, data>>]
    /\ Len(inq'[Me]) > Len(inq[Me]) =>
         \E input \in {7} \X BOOLEAN :
            /\ inq'[Me] = Append(inq[Me], input)
            /\ \/ n_in'[Me] > n_in[Me] /\ Len(io'.rcv[2]) = 2
               \/ io.wait = input /\ io'.wait = NoInput
               \/ io.dc_wait = input /\ io'.dc_wait = NoInput

C18_InputLength == [][C18_Step]_vars

\* the 2-byte messages <<7, 0>> and <<7, 2>> are queued as (7, false) and
\* (7, true), the session is active, and a 3-byte message has just arrived
\* on the data channel
C18_Witness ==
    /\ inq[Me] = << <<7, FALSE>>, <<7, TRUE>> >>
    /\ io.rcv = <<"dc", <<7, 2, 0>>>>
    /\ Me \in Range(clients) /\ net[Me] = "run"

\* C19 as stated: no call of debug_handler is left waiting for room in the
\* debug channel (a request that finds it full is answered with an error)
C19_NoCallerWaits == io.dbg_wait = 0

\* C20 as stated: after a text message that is not signaling JSON, has an
\* unknown type, is a WELCOME or carries an SDP that cannot be parsed, the
\* connection's task is still in its websocket loop
C20_MalformedIgnored ==
    [][(io'.rcv # io.rcv /\ io'.rcv[1] = "text"
           /\ io'.rcv[2] \in {"not_json", "unknown_type", "WELCOME",
                              "OFFER_bad_sdp", "ANSWER_bad_sdp"}) =>
          net'[Me] = "run"]_vars
\* C21: after any sequence of add_circle, add_segment, update_position and
\* remove, an id is listed in a grid cell exactly once when the entity exists
\* and the cell meets the bounding box of its current position and shape,
\* and not at all otherwise; a removed id is in no cell.
Count(s, id) == Cardinality({i \in 1..Len(s) : s[i] = id})

\* the cell holds the points [cx * size, (cx + 1) * size) on each axis
Covers(c, e) ==
    LET b == Aabb(e)
        size == db.cell_size
    IN /\ b[1] < (c[1] + 1) * size /\ b[3] >= c[1] * size
       /\ b[2] < (c[2] + 1) * size /\ b[4] >= c[2] * size

CellWindow == (0 - 3 * MaxCoord - 1)..(3 * MaxCoord + 1)

ListedIn(c, id) == IF c \in DOMAIN db.grid THEN Count(db.grid[c], id) ELSE 0

C21_GridConsistent ==
    /\ DOMAIN db.grid \subseteq CellWindow \X CellWindow
    /\ \A id \in Ids : \A c \in CellWindow \X CellWindow :
          ListedIn(c, id) =
              IF id \in DOMAIN db.entities /\ Covers(c, db.entities[id]) THEN 1 ELSE 0

\* a segment moved away from the cell it shared with a circle that is still
\* there, after the first entity was removed
C21_Witness ==
    /\ db.next_id = 3
    /\ DOMAIN db.entities = {2}
    /\ db.entities[2].shape.kind = "Segment"
    /\ db.entities[2].shape.x2 > MaxCoord
    /\ \A c \in DOMAIN db.grid : db.grid[c] = <<2>>

\* C22: query_rect returns, each id once, exactly the entities with a
\* matching tag whose bounding box meets the closed query rectangle, and
\* query_range exactly those with a matching tag that are circles whose
\* center is within range + radius or segments within range of the point:
\* what a scan over all entities returns, for any cell size and placement.
HasTag(e, tag_filter) == tag_filter = None \/ e.tag_hash = calculate_hash(tag_filter)

Near == (0 - MaxCoord - MaxRadius)..(MaxCoord + MaxRadius)

\* the box of e and the closed rectangle have a point in common
MeetsRect(e, r) ==
    \E px \in Near, py \in Near :
        /\ r[1] <= px /\ px <= r[3] /\ r[2] <= py /\ py <= r[4]
        /\ Aabb(e)[1] <= px /\ px <= Aabb(e)[3]
        /\ Aabb(e)[2] <= py /\ py <= Aabb(e)[4]

\* the squared distance from p to the segment of e is at most range^2: to an
\* endpoint when p projects outside the segment, to the line otherwise
SegmentWithin(e, p, range) ==
    LET vx == e.shape.x2 - e.x
        vy == e.shape.y2 - e.y
        wx == p[1] - e.x
        wy == p[2] - e.y
        ux == p[1] - e.shape.x2
        uy == p[2] - e.shape.y2
        cross == vx * wy - vy * wx
    IN IF wx * vx + wy * vy <= 0 THEN wx * wx + wy * wy <= range * range
       ELSE IF ux * vx + uy * vy >= 0 THEN ux * ux + uy * uy <= range * range
       ELSE cross * cross <= range * range * (vx * vx + vy * vy)

WithinRange(e, p, range) ==
    IF e.shape.kind = "Circle"
    THEN (p[1] - e.x) * (p[1] - e.x) + (p[2] - e.y) * (p[2] - e.y)
             <= (range + e.shape.radius) * (range + e.shape.radius)
    ELSE SegmentWithin(e, p, range)

Scan(pass(_)) == {id \in DOMAIN db.entities : pass(db.entities[id])}

NoRepeat(s) == \A i, j \in DOMAIN s : i # j => s[i] # s[j]

ScanRect(e) == HasTag(e, got.tag_filter) /\ MeetsRect(e, got.args)
ScanRange(e) ==
    HasTag(e, got.tag_filter) /\ WithinRange(e, <<got.args[1], got.args[2]>>, got.args[3])

C22_QueriesAreScans ==
    /\ got.call = "query_rect" =>
          NoRepeat(got.ids) /\ Range(got.ids) = Scan(ScanRect)
    /\ got.call = "query_range" =>
          NoRepeat(got.ids) /\ Range(got.ids) = Scan(ScanRange)

\* a rectangle that touches the circle's box on its edge only and is away
\* from the segment, in an index whose cells are smaller than the circle
C22_Witness ==
    /\ got.call = "query_rect"
    /\ got.ids = <<1>>
    /\ db.cell_size = 1
    /\ db.entities[1].shape.radius = 1
    /\ db.entities[1].x + 1 = got.args[1]
    /\ db.entities[1].tag_hash = db.entities[2].tag_hash
    /\ got.tag_filter = None

\* a range query that finds both, the segment at exactly the range
C22_WitnessRange ==
    /\ got.call = "query_range"
    /\ Len(got.ids) = 2
    /\ got.args[3] = 1
    /\ db.entities[2].shape.y2 = db.entities[2].y
    /\ db.entities[2].shape.x2 # db.entities[2].x
    /\ got.args[2] = db.entities[2].y + 1

\* C23: cast_ray returns none when no entity with a matching tag is hit within
\* max_dist and otherwise a hit with the smallest t, t being the hit distance
\* over max_dist, in [0, 1]; a circle is hit at the nearer non-negative root
\* of the ray-circle equation, so a ray starting inside a circle hits it at
\* its exit point.
OnCircle(e, px, py) ==
    (px - e.x) * (px - e.x) + (py - e.y) * (py - e.y) = e.shape.radius * e.shape.radius

\* the first point of the ray, at a distance in 0..max_dist, on the circle
NearestRoot(e, x1, y1, max_dist) ==
    LET roots == {t \in 0..max_dist : OnCircle(e, x1 + t, y1)}
    IN {[id |-> e.id, t |-> <<t, max_dist>>] : t \in {r \in roots : \A o \in roots : r <= o}}

ClaimedHits ==
    UNION {LET e == db.entities[id]
           IN IF ~HasTag(e, got.tag_filter) THEN {}
              ELSE IF e.shape.kind = "Circle"
              THEN NearestRoot(e, got.args[1], got.args[2], got.args[4])
              ELSE SegmentHits(e, got.args[1], got.args[2],
                               got.args[1] + got.args[4], got.args[2]) :
           id \in DOMAIN db.entities}

SameHit(h, o) == h.id = o.id /\ h.t[1] * o.t[2] = o.t[1] * h.t[2]

C23_NearestHit ==
    got.call = "cast_ray" =>
        IF ClaimedHits = {} THEN got.hit = NoHit
        ELSE /\ got.hit # NoHit
             /\ \E h \in ClaimedHits :
                   /\ SameHit(got.hit, h)
                   /\ \A o \in ClaimedHits : ~Less(o.t, h.t)
                   /\ Leq(<<0, 1>>, h.t) /\ Leq(h.t, <<1, 1>>)

\* C24: every pair returned by get_collision_events has its smaller id first,
\* no pair is returned twice, the call returns the pending set and empties
\* it, so a call that immediately follows another returns nothing.
C24_Step ==
    got'.call = "get_collision_events" =>
        /\ \A i \in DOMAIN got'.pairs : got'.pairs[i][1] < got'.pairs[i][2]
        /\ NoRepeat(got'.pairs)
        /\ Range(got'.pairs) = phys.collisions
        /\ phys'.collisions = {}
        /\ got.call = "get_collision_events" => got'.pairs = <<>>

C24_CollisionEvents == [][C24_Step]_vars

\* two bodies that can both move were met from either side in two steps, a
\* wall was hit too, and the events were collected
C24_Witness ==
    /\ got.call = "get_collision_events"
    /\ Range(got.pairs) = {<<1, 2>>, <<1, 3>>}
    /\ phys.steps = 2
    /\ phys.collisions = {}
    /\ \A id \in {1, 2} : id \in DOMAIN phys.bodies /\ ~phys.bodies[id].is_static

\* C25: a body is static exactly when its mass is <= 0, its inv_mass is 0
\* when it is static and 1 / mass otherwise, and no call of step changes the
\* velocity of a static body or the position of its entity, whatever collides
\* with it.
C25_Inv ==
    \A id \in DOMAIN phys.bodies :
        LET b == phys.bodies[id]
        IN /\ b.is_static <=> b.mass <= 0
           /\ b.is_static => b.inv_mass[1] = 0
           /\ ~b.is_static => b.inv_mass[1] * b.mass = b.inv_mass[2]

C25_Step ==
    phys'.steps = phys.steps + 1 =>
        \A id \in DOMAIN phys.bodies :
            phys.bodies[id].mass <= 0 =>
                /\ phys'.bodies[id].vx = phys.bodies[id].vx
                /\ phys'.bodies[id].vy = phys.bodies[id].vy
                /\ id \in DOMAIN db.entities =>
                      id \in DOMAIN db'.entities /\ db'.entities[id] = db.entities[id]

C25_StaticBodies == []C25_Inv /\ [][C25_Step]_vars

\* a static circle that was given a velocity has been run into by a body of
\* mass 2, which was pushed back
C25_Witness ==
    /\ phys.steps >= 1
    /\ DOMAIN phys.bodies = {1, 2}
    /\ phys.bodies[2].is_static /\ phys.bodies[2].vx # 0
    /\ phys.bodies[1].mass = 2
    /\ <<1, 2>> \in phys.collisions
    /\ db.entities[1].x < 0

\* C26: find_path returns none exactly when the goal cannot be reached from
\* the start along directed edges, and otherwise a sequence of nodes from
\* start to goal, each joined to the next by an edge, whose Euclidean length
\* is the least among such sequences; find_path(n, n) returns <<n>>.
IsEdge(a, b) ==
    /\ a \in DOMAIN graph.nodes /\ b \in DOMAIN graph.nodes
    /\ \E i \in DOMAIN graph.nodes[a].edges : graph.nodes[a].edges[i] = b

IsWalk(p, start, goal) ==
    /\ p[1] = start /\ p[Len(p)] = goal
    /\ \A i \in DOMAIN p : p[i] \in DOMAIN graph.nodes
    /\ \A i \in 1..(Len(p) - 1) : IsEdge(p[i], p[i + 1])

\* a shortest walk visits no node twice
Walks(start, goal) ==
    {p \in UNION {[1..k -> NodeIds] : k \in 1..MaxNodes} : IsWalk(p, start, goal)}

RECURSIVE Length(_)
Length(p) ==
    IF Len(p) <= 1 THEN 0
    ELSE dist(graph, p[1], p[2]) + Length(Tail(p))

C26_ShortestPath ==
    got.call = "find_path" =>
        LET start == got.args[1]
            goal == got.args[2]
        IN /\ ~got.panic
           /\ Walks(start, goal) = {} <=> got.path = Absent
           /\ \A p \in got.path :
                 /\ IsWalk(p, start, goal)
                 /\ \A q \in Walks(start, goal) : Length(p) <= Length(q)
                 /\ start = goal => p = <<start>>

\* C27: find_path returns none, and does not abort, when the start or the
\* goal was never added and when an edge that can be reached from the start
\* points to an id that was never added; it always ends with a path or none.
Dangling(start) ==
    \E a \in DOMAIN graph.nodes :
        /\ a = start \/ Walks(start, a) # {}
        /\ \E i \in DOMAIN graph.nodes[a].edges :
              graph.nodes[a].edges[i] \notin DOMAIN graph.nodes

C27_MissingNodeIsNoPath ==
    got.call = "find_path" =>
        /\ ~got.panic
        /\ got.args[1] \notin DOMAIN graph.nodes => got.path = Absent
        /\ got.args[2] \notin DOMAIN graph.nodes => got.path = Absent
        /\ got.args[1] \in DOMAIN graph.nodes /\ Dangling(got.args[1]) => got.path = Absent

\* C28: add_node on an id that is already a node leaves its coordinates and
\* its edges as they are; add_edge(from, to) adds the directed edge from ->
\* to and nothing else, changes nothing when the edge is already there, and
\* changes nothing when from is not a node.
HasEdge(g, from, to) ==
    from \in DOMAIN g.nodes /\ \E i \in DOMAIN g.nodes[from].edges : g.nodes[from].edges[i] = to

C28_Step ==
    /\ got'.call = "add_node" =>
          LET id == got'.args[1]
          IN IF id \in DOMAIN graph.nodes
             THEN graph' = graph
             ELSE /\ DOMAIN graph'.nodes = DOMAIN graph.nodes \cup {id}
                  /\ graph'.nodes[id] = [x |-> got'.args[2], y |-> got'.args[3], edges |-> <<>>]
                  /\ \A n \in DOMAIN graph.nodes : graph'.nodes[n] = graph.nodes[n]
    /\ got'.call = "add_edge" =>
          LET from == got'.args[1]
              to == got'.args[2]
          IN IF from \notin DOMAIN graph.nodes \/ HasEdge(graph, from, to)
             THEN graph' = graph
             ELSE /\ DOMAIN graph'.nodes = DOMAIN graph.nodes
                  /\ graph'.nodes[from] = [graph.nodes[from] EXCEPT !.edges = Append(@, to)]
                  /\ \A n \in DOMAIN graph.nodes \ {from} : graph'.nodes[n] = graph.nodes[n]

C30_Step ==
    LET id == got'.args[1]
    IN /\ got'.call \in {"update_position", "remove"} /\ id \notin DOMAIN db.entities
            => db' = db /\ phys' = phys
       /\ got'.call = "set_velocity" /\ id \notin DOMAIN phys.bodies
            => db' = db /\ phys' = phys
       /\ got'.call = "get" =>
            /\ id \notin DOMAIN db'.entities
                 => got'.position = Absent /\ got'.info = Absent
            /\ id \notin DOMAIN phys'.bodies => got'.velocity = Absent
            /\ db' = db /\ phys' = phys
       /\ got'.call = "step" =>
            \A b \in DOMAIN phys.bodies \ DOMAIN db.entities :
                /\ b \notin DOMAIN db'.entities
                /\ \A pair \in phys'.collisions \ phys.collisions :
                       pair[1] # b /\ pair[2] # b
                /\ phys'.bodies[b] =
                       Integrated(phys.bodies[b], phys.gravity_x, phys.gravity_y, 1)

SameCmds(a, b) ==
    /\ Len(a) = Len(b)
    /\ \A i \in DOMAIN a : a[i].op = b[i].op /\ a[i].args = b[i].args

StringsOf(c) ==
    {i \in DOMAIN c.args : Layout(c.op)[i] = "str"}

C29_RoundTrip ==
    got.call = "emit" =>
        /\ SameCmds(Parse(got.bytes), got.cmds)
        /\ Encode(<<>>, Parse(got.bytes)) = got.bytes
        /\ \A k \in DOMAIN got.cmds : \A i \in StringsOf(got.cmds[k]) :
               get_u16_le(put_string(<<>>, got.cmds[k].args[i])) = Size(got.cmds[k].args[i])

\* ------------------------------------------------------------------ C31

\* C31: the mode is Update when a GameState is created, at the start of the
\* server and by a hot reload; an update call sets it to Update and a draw
\* call to Draw, whether the callback is there, returns or raises an error;
\* begin_frame, on_connect, on_disconnect, handle_input and eval leave it as
\* it is.
C31_Step ==
    IF pc = "top" /\ pc' = "replay" THEN game'.current_mode = "Update"
    ELSE IF pc = "input" /\ pc' = "draw" THEN game'.current_mode = "Update"
    ELSE IF \E c \in Conns : DrawStepOf(c) THEN game'.current_mode = "Draw"
    ELSE game'.current_mode = game.current_mode

C31_Mode == game.current_mode = "Update" /\ [][C31_Step]_vars

\* on_input raised an error after a draw, and the mode is still Draw
C31_Witness ==
    /\ ret.kind = "handle_input"
    /\ ~ret.ok
    /\ game.current_mode = "Draw"

\* ------------------------------------------------------------------ C32

\* a client of the active list was not admitted in this iteration: it was
\* admitted in an earlier one, which has completed
EarlierTick == \E c \in Range(clients) : tick.conn[c] = 0

\* the frame loop calls on_connect, on_disconnect or on_input in this step
CallbackStep ==
    \/ tick'.conn # tick.conn
    \/ disc' # disc
    \/ delivered' # delivered

\* C32: once a tick of the frame loop has completed, every on_connect,
\* on_disconnect and on_input callback runs while the mode is Draw.
C32_CallbacksInDraw ==
    [][EarlierTick /\ CallbackStep => game.current_mode = "Draw"]_vars

\* ------------------------------------------------------------------ C33

\* C33: every command the script emits during on_connect(S) is in the bytes
\* that on_connect(S) call returns, and in no frame sent to another session.
C33_ConnectCommandsLocal ==
    /\ (ret.kind = "on_connect" /\ ret.ok) =>
          LET IsMine(r) == r.tag = Tag(script, "on_connect", ret.sid)
          IN Len(SelectSeq(ret.bytes, IsMine)) = Len(ret.emitted)
    /\ \A c \in Conns : \A i \in DOMAIN rq[c] : \A j \in DOMAIN rq[c][i] :
          rq[c][i][j].tag[1] = "on_connect" => rq[c][i][j].tag[2] = c

\* ------------------------------------------------------------------ C34

\* C34: only begin_frame clears the event buffer. Every other call leaves
\* what the buffer holds in place: update appends the sound records of its
\* script to it, draw leaves it unchanged and a successful draw returns all
\* of it, so that events stay, and are returned by every draw, until the
\* next begin_frame.
C34_Step ==
    LET before == game.event_buffer
        after == game'.event_buffer
    IN /\ ret'.kind = "none" => after = <<>>
       /\ ret'.kind # "none" => IsPrefix(before, after)
       /\ ret'.kind = "update" =>
             after = before \o EventRecords(SoundCalls(ret'.emitted, Tag(script, "update", 0)))
       /\ ret'.kind = "draw" =>
             /\ after = before
             /\ ret'.ok => IsPrefix(before, ret'.bytes)

C34_EventsUntilBeginFrame == [][C34_Step]_vars

\* a draw returned the two events the buffer holds, ahead of a record of its
\* own, and the buffer still holds them
C34_Witness ==
    /\ ret.kind = "draw" /\ ret.ok
    /\ Len(game.event_buffer) = MaxEvents
    /\ Len(ev_log) = MaxEvents
    /\ IsPrefix(game.event_buffer, ret.bytes)
    /\ Len(ret.bytes) > Len(game.event_buffer)

\* ------------------------------------------------------------------ C35

\* the worlds a step may leave when it starts with no pair pending
FreshStep == step([db |-> db, phys |-> [phys EXCEPT !.collisions = {}]], 1)

\* C35: after a step the collision set holds the pairs that collided during
\* that step and no other, whether or not the script collected the pairs of
\* the steps before, so get_collision_events returns only pairs of the last
\* step.
C35_Step ==
    phys'.steps = phys.steps + 1 =>
        \E w \in FreshStep :
            /\ w.db = db'
            /\ w.phys.bodies = phys'.bodies
            /\ w.phys.collisions = phys'.collisions

Massless(id) == id \notin DOMAIN phys.bodies \/ phys.bodies[id].inv_mass[1] = 0

\* C36: a step records no event for a pair whose inverse masses are both 0,
\* and of two such entities that touch it changes neither the position nor
\* the velocity, beyond the movement of a body by its own velocity.
C36_Step ==
    got'.call = "step" =>
        \A a \in DOMAIN db.entities, b \in DOMAIN db.entities :
            (a # b /\ Massless(a) /\ Massless(b)) =>
                /\ Pair(a, b) \notin phys'.collisions
                /\ (\A c \in DOMAIN db.entities : Massless(c)) =>
                      /\ phys'.bodies = phys.bodies
                      /\ db'.entities[a].x =
                            db.entities[a].x
                              + (IF a \in DOMAIN phys.bodies /\ ~phys.bodies[a].is_static
                                 THEN phys.bodies[a].vx ELSE 0)
                      /\ db'.entities[a].y = db.entities[a].y

C36_NoEventWithoutMass == [][C36_Step]_vars

\* ------------------------------------------------------------------ C37

\* the entity id does not move in a step: it has no body, or a static one
Fixed(id) == id \notin DOMAIN phys.bodies \/ phys.bodies[id].is_static

\* how far along (nx, ny) the correction of the collision col pushes a circle
\* that carries all of the pair's inverse mass: 0.8 * (penetration - slop)
PushOf(col, n) == (n * Max2(col.pen * FINE - 1, 0) * 4) \div (col.nd * 5 * FINE)

\* the sum over the entities `others` of the pushes that the circle of radius
\* radius_a at pos_a gets from them, along x (axis 1) or y (axis 2)
RECURSIVE Pushes(_, _, _, _)
Pushes(pos_a, radius_a, others, axis) ==
    IF others = {} THEN 0
    ELSE LET b == CHOOSE o \in others : TRUE
             col == Collision(pos_a, radius_a, CHOOSE i \in get_entity_info(db, b) : TRUE)
             one == IF col = Absent THEN 0
                    ELSE LET c == CHOOSE c \in col : TRUE
                         IN PushOf(c, IF axis = 1 THEN c.nx ELSE c.ny)
         IN one + Pushes(pos_a, radius_a, others \ {b}, axis)

\* C37: a dynamic circle that overlaps several entities which do not move
\* ends the step at its integrated position less the corrections of all of
\* its collisions.
C37_Step ==
    got'.call = "step" =>
        \A a \in DOMAIN phys.bodies \cap DOMAIN db.entities :
            LET others == DOMAIN db.entities \ {a}
                body == Integrated(phys.bodies[a], phys.gravity_x, phys.gravity_y, 1)
                e == db.entities[a]
                pos_a == <<e.x + body.vx, e.y + body.vy>>
            IN (/\ ~phys.bodies[a].is_static /\ phys.bodies[a].mass < Infinity
                /\ e.shape.kind = "Circle"
                /\ \A b \in others : Fixed(b)) =>
                   /\ db'.entities[a].x = pos_a[1] - Pushes(pos_a, e.shape.radius, others, 1)
                   /\ db'.entities[a].y = pos_a[2] - Pushes(pos_a, e.shape.radius, others, 2)

C37_AllCorrections == [][C37_Step]_vars

\* ------------------------------------------------------------------ C38

\* the frame loop admits a connection in this step
AdmitStep == pc = "accept" /\ Len(clients') = Len(clients) + 1

\* C38: every connection pushed to the admission queue is admitted once, and
\* connections are admitted in the order in which they were pushed: the one
\* admitted is the oldest of the queue, it leaves the queue, and it is not
\* pushed or admitted again.
C38_Step ==
    /\ AdmitStep =>
          /\ clients' = Append(clients, Head(new_clients))
          /\ new_clients' = Tail(new_clients)
          /\ tick'.conn[Head(new_clients)] = tick.conn[Head(new_clients)] + 1
    /\ NoRepeat(new_clients' \o clients')
    /\ \A c \in Range(new_clients) : c \in Range(new_clients') \cup Range(clients')

C38_AdmittedInOrder == [][C38_Step]_vars


\* C39: at any time the active list holds at most one client per session id
\* (the frame loop calls on_connect when it appends a client to the list and
\* on_disconnect when it removes one, so this is what makes the two callbacks
\* alternate for each session id), also when a client connects with a
\* session id it asked for itself
C39_OnePerSession ==
    \A i, j \in DOMAIN clients :
        i # j => session[clients[i]] # session[clients[j]]
====
